---- MODULE Spec2Model ----
(***************************************************************************)
(* Verification model of the scrape core of swayed-backend:                *)
(*   src/scrape/results.py   Scorer (calculate_score, safe_int) and Fair   *)
(*                           Selector (select_top_content,                 *)
(*                           generate_results)                             *)
(*   src/scrape/retrieve.py  safe_int of the extractors and the Cleaner    *)
(*                           (clean_data)                                  *)
(*                                                                         *)
(* Python values are tagged pairs <<tag, payload>>:                        *)
(*   <<"none", 0>>     None                                                *)
(*   <<"bool", b>>     True / False                                        *)
(*   <<"int", n>>      int                                                 *)
(*   <<"float", t>>    a finite float, in tenths (t = 27 is 2.7)           *)
(*   <<"nan", 0>>      float('nan')                                        *)
(*   <<"inf", s>>      float('inf') (s = 1) and float('-inf') (s = -1)     *)
(*   <<"str", cs>>     str, cs the sequence of its characters              *)
(*   <<"list", xs>>    list, xs the sequence of its elements               *)
(*   <<"dict", ps>>    dict, ps the sequence of its <<key, value>> pairs   *)
(*                     in insertion order (keys are field names)           *)
(* A call's outcome is <<"ok", v>> (it returned v) or <<"raise", e>> (it    *)
(* raised exception e).                                                    *)
(***************************************************************************)
EXTENDS FiniteSets, Integers, Sequences, TLC

VARIABLES
    pc,           \* the set of operations applied to the drawn input so far
    value,        \* safe_int: the argument
    coerced,      \* safe_int of results.py: the outcome
    coerced_x,    \* safe_int of retrieve.py: the outcome
    item,         \* calculate_score: the ContentItem
    score,        \* calculate_score: the outcome
    tree,         \* clean_data: the argument
    cleaned,      \* clean_data: the result of every application so far
    data,         \* data.json: the canonical collection
    target,       \* select_top_content: target_total
    selected,     \* select_top_content: the outcome
    result_json,  \* result.json: the persisted selection
    record,       \* an extractor: the raw record handed to it
    extracted,    \* an extractor: the outcome
    temp_data,    \* temp_data.json: the ingestion buffer
    all_temp_data,\* Router: the records load_temp_data returned
    cursor,       \* Router: the position of the loop in all_temp_data
    combined_data,\* Router: the items extracted so far
    router,       \* Router: where the run of retrieve.py stands
    warnings,     \* Router: the number of "Unknown platform" warnings printed
    torn,         \* the files opened for writing whose content is not complete
    runs,         \* Router: the number of runs started
    processing_tasks, \* main.py: the task dictionaries, by task
    pipeline,     \* main.py: where process_pipeline stands, by task
    response,     \* main.py: what get_results returned last
    submitted_url,\* detect_platform: the URL handed to it
    detected,     \* detect_platform: the platform it returned
    routed        \* Router: the platform it finds for a record stamped with the URL

coerceVars == <<value, coerced, coerced_x>>
scoreVars == <<item, score>>
cleanVars == <<tree, cleaned>>
selectVars == <<data, target, selected, result_json>>
extractVars == <<record, extracted>>
routerVars == <<temp_data, all_temp_data, cursor, combined_data, router, warnings, torn, runs>>
serverVars == <<processing_tasks, pipeline, response, submitted_url, detected, routed>>
vars == <<pc, coerceVars, scoreVars, cleanVars, selectVars, extractVars, routerVars, serverVars>>

(***************************************************************************)
(* Python values                                                           *)
(***************************************************************************)
None == <<"none", 0>>
PyBool(b) == <<"bool", b>>
PyInt(n) == <<"int", n>>
PyFloat(t) == <<"float", t>>
NaN == <<"nan", 0>>
Inf(s) == <<"inf", s>>
PyStr(cs) == <<"str", cs>>
PyList(xs) == <<"list", xs>>
PyDict(ps) == <<"dict", ps>>

Ok(v) == <<"ok", v>>
Raise(e) == <<"raise", e>>
IsOk(o) == o[1] = "ok"

Tag(v) == v[1]
IsNone(v) == Tag(v) = "none"
IsStr(v) == Tag(v) = "str"
IsList(v) == Tag(v) = "list"
IsDict(v) == Tag(v) = "dict"

\* the sequence f, its elements evaluated once
Elements(f) == f \o <<>>

\* dict operations on the pair sequence of a dict
HasKey(ps, k) == \E i \in DOMAIN ps : ps[i][1] = k
Get(ps, k, dflt) ==
    IF HasKey(ps, k) THEN ps[CHOOSE i \in DOMAIN ps : ps[i][1] = k][2] ELSE dflt
Put(ps, k, v) ==
    IF HasKey(ps, k)
    THEN Elements([i \in DOMAIN ps |-> IF ps[i][1] = k THEN <<k, v>> ELSE ps[i]])
    ELSE Append(ps, <<k, v>>)
Del(ps, k) == SelectSeq(ps, LAMBDA p : p[1] # k)

Min(a, b) == IF a <= b THEN a ELSE b
Max(a, b) == IF a >= b THEN a ELSE b

\* F applied to the value of e, e evaluated once
With(e, F(_)) == CHOOSE r \in {F(v) : v \in {e}} : TRUE

\* all sequences over S of length at most n
SeqsUpTo(S, n) == UNION {[1..k -> S] : k \in 0..n}

(***************************************************************************)
(* Bounds                                                                  *)
(***************************************************************************)
MaxStrLen == 2      \* longest string handed to safe_int
MaxInt == 3         \* integers handed to safe_int range over -MaxInt..MaxInt

(***************************************************************************)
(* safe_int                                                                *)
(***************************************************************************)
\* Characters are named by strings; "sup2" is SUPERSCRIPT TWO (str.isdigit
\* accepts it, int() rejects it), "ar3" is ARABIC-INDIC DIGIT THREE (a
\* decimal digit of value 3).
AsciiDigits == <<"0", "1", "2", "3", "4", "5", "6", "7", "8", "9">>
IsAsciiDigit(c) == \E d \in DOMAIN AsciiDigits : AsciiDigits[d] = c
IsDigitChar(c) == IsAsciiDigit(c) \/ c \in {"sup2", "ar3"}
IsDecimalChar(c) == IsAsciiDigit(c) \/ c = "ar3"
DigitValue(c) ==
    IF c = "ar3" THEN 3 ELSE (CHOOSE d \in DOMAIN AsciiDigits : AsciiDigits[d] = c) - 1

\* str.isdigit(): non-empty and every character is a digit
isdigit(cs) == Len(cs) > 0 /\ \A i \in DOMAIN cs : IsDigitChar(cs[i])

RECURSIVE DecimalValue(_)
DecimalValue(cs) ==
    IF cs = <<>> THEN 0
    ELSE 10 * DecimalValue(SubSeq(cs, 1, Len(cs) - 1)) + DigitValue(cs[Len(cs)])

\* int(value); a string is parsed when it is decimal digits only (the model's
\* strings hold no sign, whitespace or underscore)
int(v) ==
    CASE Tag(v) = "str" ->
            IF Len(v[2]) > 0 /\ \A i \in DOMAIN v[2] : IsDecimalChar(v[2][i])
            THEN Ok(DecimalValue(v[2]))
            ELSE Raise("ValueError")
      [] Tag(v) = "int" -> Ok(v[2])
      [] Tag(v) = "bool" -> Ok(IF v[2] THEN 1 ELSE 0)
      [] Tag(v) = "float" ->
            Ok(IF v[2] >= 0 THEN v[2] \div 10 ELSE -((-v[2]) \div 10))
      [] Tag(v) = "nan" -> Raise("ValueError")
      [] Tag(v) = "inf" -> Raise("OverflowError")
      [] OTHER -> Raise("TypeError")

\* isinstance(value, (int, float)); bool is a subclass of int
IsNumber(v) == Tag(v) \in {"int", "bool", "float", "nan", "inf"}

\* try: ... except (ValueError, TypeError): return 0
CatchValueTypeError(o) ==
    IF o[1] = "raise" /\ o[2] \in {"ValueError", "TypeError"} THEN Ok(0) ELSE o

\* safe_int with the string branch lost: only numbers are converted
safe_int_numbers_only(v) ==
    IF IsNone(v) THEN Ok(0)
    ELSE IF IsNumber(v) THEN CatchValueTypeError(int(v))
    ELSE Ok(0)

\* results.py safe_int
safe_int(v) ==
    IF IsNone(v) THEN Ok(0)
    ELSE IF IsStr(v) /\ isdigit(v[2]) THEN CatchValueTypeError(int(v))
    ELSE IF IsNumber(v) THEN CatchValueTypeError(int(v))
    ELSE Ok(0)

\* retrieve.py safe_int
retrieve_safe_int(v) ==
    IF IsStr(v) /\ isdigit(v[2]) THEN CatchValueTypeError(int(v))
    ELSE IF IsNumber(v) THEN CatchValueTypeError(int(v))
    ELSE Ok(0)

StrChars == {"0", "1", "7", "sup2", "ar3", "-", "a"}
Strings == {PyStr(cs) : cs \in SeqsUpTo(StrChars, MaxStrLen)}
Ints == {PyInt(n) : n \in -MaxInt..MaxInt}
Floats == {PyFloat(t) : t \in {-27, -5, 0, 5, 27}} \cup {NaN, Inf(1), Inf(-1)}
Containers == {PyList(<<>>), PyList(<<PyInt(1)>>), PyDict(<<>>), PyDict(<< <<"views", PyInt(1)>> >>)}
Values == {None, PyBool(TRUE), PyBool(FALSE)} \cup Ints \cup Floats \cup Strings \cup Containers

Idle == None

IdleCoerce == value = Idle /\ coerced = Idle /\ coerced_x = Idle
IdleScore == item = Idle /\ score = Idle
IdleClean == tree = Idle /\ cleaned = <<>>
IdleSelect == data = <<>> /\ target = 0 /\ selected = Idle /\ result_json = <<>>
IdleExtract == record = Idle /\ extracted = Idle
IdleRouter ==
    /\ temp_data = <<>> /\ all_temp_data = <<>> /\ cursor = 0 /\ combined_data = <<>>
    /\ router = "idle" /\ warnings = 0 /\ torn = {} /\ runs = 0
\* no call of get_results has returned yet
NoResponse ==
    [task_id |-> 0, status |-> "none", completed_at |-> None, result_data |-> None,
     error |-> None]
IdleServer ==
    /\ processing_tasks = <<>> /\ pipeline = <<>> /\ response = NoResponse
    /\ submitted_url = Idle /\ detected = Idle /\ routed = Idle

InitCoerce ==
    /\ pc = {}
    /\ value \in Values
    /\ coerced = Idle /\ coerced_x = Idle
    /\ IdleScore /\ IdleClean /\ IdleSelect /\ IdleExtract /\ IdleRouter /\ IdleServer

\* the Scorer coerces the value
ScorerSafeInt ==
    /\ "scorer" \notin pc
    /\ pc' = pc \cup {"scorer"}
    /\ coerced' = safe_int(value)
    /\ UNCHANGED <<value, coerced_x, scoreVars, cleanVars, selectVars, extractVars, routerVars, serverVars>>

\* an extractor coerces the value
ExtractorSafeInt ==
    /\ "extractor" \notin pc
    /\ pc' = pc \cup {"extractor"}
    /\ coerced_x' = retrieve_safe_int(value)
    /\ UNCHANGED <<value, coerced, scoreVars, cleanVars, selectVars, extractVars, routerVars, serverVars>>

NextCoerce == ScorerSafeInt \/ ExtractorSafeInt

SpecCoerce == InitCoerce /\ [][NextCoerce]_vars

\* a string of decimal digits only (what int() parses)
DecimalOnly(cs) == Len(cs) > 0 /\ \A i \in DOMAIN cs : IsDecimalChar(cs[i])

\* what the coercion rule prescribes for None, strings, lists, mappings and integers
Prescribed(v) ==
    CASE Tag(v) = "int" -> Ok(v[2])
      [] Tag(v) = "str" /\ DecimalOnly(v[2]) -> int(v)
      [] OTHER -> Ok(0)

twitter == <<"t", "w", "i", "t", "t", "e", "r">>
linkedin == <<"l", "i", "n", "k", "e", "d", "i", "n">>
youtube == <<"y", "o", "u", "t", "u", "b", "e">>
tiktok == <<"t", "i", "k", "t", "o", "k">>
instagram == <<"i", "n", "s", "t", "a", "g", "r", "a", "m">>
facebook == <<"f", "a", "c", "e", "b", "o", "o", "k">>
thread == <<"t", "h", "r", "e", "a", "d">>
tweet == <<"t", "w", "e", "e", "t">>

\* str.lower(), on the letters the model's strings use
LowerChar(c) ==
    CASE c = "T" -> "t" [] c = "Y" -> "y" [] c = "L" -> "l" [] c = "I" -> "i"
      [] c = "V" -> "v" [] c = "S" -> "s" [] c = "C" -> "c" [] OTHER -> c
lower(cs) == Elements([i \in DOMAIN cs |-> LowerChar(cs[i])])

\* safe_int(stats.get(k, 0))
Stat(stats, k) == safe_int(Get(stats[2], k, PyInt(0)))

\* the first exception raised by a sequence of outcomes, if any
FirstRaise(os) ==
    IF \E i \in DOMAIN os : ~IsOk(os[i])
    THEN os[CHOOSE i \in DOMAIN os : ~IsOk(os[i]) /\ \A j \in 1..(i - 1) : IsOk(os[j])]
    ELSE Ok(0)

\* calculate_score with the thread case lost: a thread is scored from stats
calculate_score_stats_only(it) ==
    LET platform == lower(Get(it[2], "platform", PyStr(<<>>))[2])
        stats == Get(it[2], "stats", PyDict(<<>>))
        views == Stat(stats, "views")
        likes == Stat(stats, "likes")
        retweets == Stat(stats, "retweets")
        replies == Stat(stats, "replies")
        comments == Stat(stats, "comments")
    IN  IF platform = twitter
        THEN IF IsOk(FirstRaise(<<views, likes, retweets, replies>>))
             THEN Ok(Max(views[2] * 3 + likes[2] * 20 + retweets[2] * 30 + replies[2] * 15, 0))
             ELSE FirstRaise(<<views, likes, retweets, replies>>)
        ELSE IF platform = linkedin
        THEN IF IsOk(FirstRaise(<<comments, likes>>))
             THEN Ok(Max((comments[2] * 5 + likes[2]) * 10, 0))
             ELSE FirstRaise(<<comments, likes>>)
        ELSE IF platform \in {youtube, tiktok, instagram}
        THEN IF IsOk(views)
             THEN Ok(Max(IF platform = youtube THEN views[2] * 1
                         ELSE IF platform = tiktok THEN views[2] * 2
                         ELSE views[2] * 5, 0))
             ELSE views
        ELSE Ok(0)

\* results.py calculate_score
calculate_score(it) ==
    LET platform == lower(Get(it[2], "platform", PyStr(<<>>))[2])
        ctype == Get(it[2], "content_type", None)
        \* for Twitter threads, combined_stats; for everything else, stats
        stats == IF platform = twitter /\ IsStr(ctype) /\ ctype[2] = thread
                 THEN Get(it[2], "combined_stats", PyDict(<<>>))
                 ELSE Get(it[2], "stats", PyDict(<<>>))
        views == Stat(stats, "views")
        likes == Stat(stats, "likes")
        retweets == Stat(stats, "retweets")
        replies == Stat(stats, "replies")
        comments == Stat(stats, "comments")
    IN  IF platform = twitter
        THEN IF IsOk(FirstRaise(<<views, likes, retweets, replies>>))
             THEN Ok(Max(views[2] * 3 + likes[2] * 20 + retweets[2] * 30 + replies[2] * 15, 0))
             ELSE FirstRaise(<<views, likes, retweets, replies>>)
        ELSE IF platform = linkedin
        THEN IF IsOk(FirstRaise(<<comments, likes>>))
             THEN Ok(Max((comments[2] * 5 + likes[2]) * 10, 0))
             ELSE FirstRaise(<<comments, likes>>)
        ELSE IF platform \in {youtube, tiktok, instagram}
        THEN IF IsOk(views)
             THEN Ok(Max(IF platform = youtube THEN views[2] * 1
                         ELSE IF platform = tiktok THEN views[2] * 2
                         ELSE views[2] * 5, 0))
             ELSE views
        ELSE Ok(0)

\* The items handed to the Scorer.  Each of the five stats the formulas read
\* is absent or BaseStat; at most one of them holds an odd value instead.
StatKeys == <<"views", "likes", "retweets", "replies", "comments">>
Absent == <<"absent", 0>>
BaseStat == PyInt(2)
OddStats ==
    {None, PyInt(-2), PyStr(<<"7">>), PyStr(<<"a">>), PyFloat(27), PyFloat(-27),
     NaN, Inf(1), PyList(<<>>)}
StatChoices ==
    {f \in [1..Len(StatKeys) -> {Absent, BaseStat} \cup OddStats] :
        Cardinality({i \in 1..Len(StatKeys) : f[i] \in OddStats}) <= 1}

\* the dict holding StatKeys[i]: f[i] for every stat that is not absent
RECURSIVE StatPairs(_, _)
StatPairs(f, i) ==
    IF i > Len(StatKeys) THEN <<>>
    ELSE (IF f[i] = Absent THEN <<>> ELSE << <<StatKeys[i], f[i]>> >>) \o StatPairs(f, i + 1)
StatsDict(f) == PyDict(StatPairs(f, 1))

CombinedStats ==
    PyDict(<< <<"views", PyInt(10)>>, <<"likes", PyInt(1)>>, <<"retweets", PyInt(1)>>,
              <<"replies", PyInt(1)>>, <<"quotes", PyInt(4)>>, <<"bookmarks", PyInt(4)>> >>)

Platforms ==
    {twitter, <<"T", "w", "i", "t", "t", "e", "r">>, linkedin, youtube,
     <<"Y", "o", "u", "T", "u", "b", "e">>, tiktok, instagram, facebook}

\* an item: platform (or none), content_type (or none), stats, combined_stats (or none)
ScoreItem(p, c, st, cst) ==
    PyDict((IF p = Absent THEN <<>> ELSE << <<"platform", PyStr(p)>> >>)
        \o (IF c = Absent THEN <<>> ELSE << <<"content_type", PyStr(c)>> >>)
        \o << <<"stats", st>> >>
        \o (IF cst = Absent THEN <<>> ELSE << <<"combined_stats", cst>> >>))

ScoreItems ==
    {ScoreItem(p, c, StatsDict(f), cst) :
        p \in Platforms \cup {Absent}, c \in {Absent, thread, tweet},
        f \in StatChoices, cst \in {Absent, CombinedStats}}

InitScore ==
    /\ pc = {}
    /\ item \in ScoreItems
    /\ score = Idle
    /\ IdleCoerce /\ IdleClean /\ IdleSelect /\ IdleExtract /\ IdleRouter /\ IdleServer

\* the Scorer scores the item
CalculateScore ==
    /\ pc = {}
    /\ pc' = {"scored"}
    /\ score' = calculate_score(item)
    /\ UNCHANGED <<item, coerceVars, cleanVars, selectVars, extractVars, routerVars, serverVars>>

NextScore == CalculateScore

SpecScore == InitScore /\ [][NextScore]_vars

\* a stat of mapping d as the formulas read it: absent counts as 0
StatOr0(d, k) == IF HasKey(d[2], k) THEN Get(d[2], k, PyInt(0))[2] ELSE 0

\* the mapping the reference formula reads: combined_stats for a Twitter
\* thread, stats for everything else (a missing mapping is empty)
FormulaStats(it) ==
    IF /\ lower(Get(it[2], "platform", PyStr(<<>>))[2]) = twitter
       /\ Get(it[2], "content_type", PyStr(<<>>))[2] = thread
    THEN Get(it[2], "combined_stats", PyDict(<<>>))
    ELSE Get(it[2], "stats", PyDict(<<>>))

\* the reference formula, in tenths
Formula10(it) ==
    LET p == lower(Get(it[2], "platform", PyStr(<<>>))[2])
        d == FormulaStats(it)
    IN  CASE p = twitter ->
                StatOr0(d, "views") * 3 + StatOr0(d, "likes") * 20
                    + StatOr0(d, "retweets") * 30 + StatOr0(d, "replies") * 15
          [] p = linkedin -> StatOr0(d, "comments") * 50 + StatOr0(d, "likes") * 10
          [] p = youtube -> StatOr0(d, "views") * 1
          [] p = tiktok -> StatOr0(d, "views") * 2
          [] p = instagram -> StatOr0(d, "views") * 5
          [] OTHER -> 0

\* every stat of the item's stats mapping is an integer (what the extractors,
\* whose stats are safe_int results, write to data.json)
IntegerStats(it) ==
    LET d == Get(it[2], "stats", PyDict(<<>>))[2]
    IN  \A i \in DOMAIN d : Tag(d[i][2]) = "int"

\* C6 as stated: calculate_score equals the reference formula for every item.
ScoreIsFormula ==
    (pc = {"scored"} /\ IntegerStats(item)) => score = Ok(Formula10(item))

\* C6 as amended: for every item whose stats are integers or absent,
\* calculate_score equals the reference formula floored at 0.
ScoreIsFlooredFormula ==
    (pc = {"scored"} /\ IntegerStats(item)) => score = Ok(Max(Formula10(item), 0))

\* an item with integer stats whose formula is negative has been scored 0
ScoreIsFlooredFormulaWitness ==
    /\ pc = {"scored"}
    /\ IntegerStats(item)
    /\ Formula10(item) < 0
    /\ score = Ok(0)

\* C7: calculate_score returns a value >= 0 for every item, whatever the
\* platform and whatever the stat values are.
ScoreNonNegative ==
    pc = {"scored"} => (IsOk(score) /\ score[2] >= 0)

(***************************************************************************)
(* Cleaner: clean_data                                                     *)
(***************************************************************************)
EmptyStr == PyStr(<<>>)
NullStr == PyStr(<<"n", "u", "l", "l">>)

\* item is not None and item != "null"
KeptInList(v) == ~IsNone(v) /\ v # NullStr

\* value is None or value == "" or value == "null" or
\* (isinstance(value, (list, dict)) and len(value) == 0)
SkippedField(v) ==
    \/ IsNone(v)
    \/ v = EmptyStr
    \/ v = NullStr
    \/ ((IsList(v) \/ IsDict(v)) /\ Len(v[2]) = 0)

RECURSIVE clean_data(_)
RECURSIVE clean_fields(_)
RECURSIVE clean_fields_keep_empty(_)

\* the loop over data.items() of clean_data, from the first field on
clean_fields(ps) ==
    IF ps = <<>> THEN <<>>
    ELSE LET key == Head(ps)[1]
             val == Head(ps)[2]
             rest == clean_fields(Tail(ps))
         IN  IF SkippedField(val) THEN rest
             ELSE IF IsDict(val)
             THEN LET cleaned_value == clean_data(val)
                  IN  IF Len(cleaned_value[2]) > 0
                      THEN << <<key, cleaned_value>> >> \o rest
                      ELSE rest
             ELSE IF IsList(val)
             THEN LET cleaned_list ==
                          SelectSeq(Elements([i \in DOMAIN val[2] |-> clean_data(val[2][i])]), KeptInList)
                  IN  IF Len(cleaned_list) > 0
                      THEN << <<key, PyList(cleaned_list)>> >> \o rest
                      ELSE rest
             ELSE << <<key, val>> >> \o rest

\* the loop without "if cleaned_value" and "if cleaned_list": a nested dict or
\* list is kept even when cleaning leaves it empty
clean_fields_keep_empty(ps) ==
    IF ps = <<>> THEN <<>>
    ELSE LET key == Head(ps)[1]
             val == Head(ps)[2]
             rest == clean_fields_keep_empty(Tail(ps))
         IN  IF SkippedField(val) THEN rest
             ELSE IF IsDict(val)
             THEN << <<key, clean_data(val)>> >> \o rest
             ELSE IF IsList(val)
             THEN << <<key, PyList(SelectSeq(Elements([i \in DOMAIN val[2] |-> clean_data(val[2][i])]),
                                             KeptInList))>> >> \o rest
             ELSE << <<key, val>> >> \o rest

\* the dict branch of clean_data
clean_dict(ps) == clean_fields(ps)

\* retrieve.py clean_data
clean_data(d) ==
    IF IsDict(d) THEN PyDict(clean_dict(d[2]))
    ELSE IF IsList(d)
    THEN PyList(SelectSeq(Elements([i \in DOMAIN d[2] |-> clean_data(d[2][i])]), KeptInList))
    ELSE IF d # NullStr THEN d ELSE None

MaxDepth == 3       \* deepest nesting of the values handed to clean_data

\* The values handed to clean_data: a chain of at most MaxDepth nested lists
\* and dicts around a leaf, each list and dict of the chain holding the nested
\* value alone or next to one sibling (before or after it).
Leaves == {None, EmptyStr, NullStr, PyStr(<<"x">>), PyList(<<>>), PyDict(<<>>)}
Siblings == {None, PyStr(<<"x">>)}

RECURSIVE Trees(_)
Trees(d) ==
    IF d = 0 THEN Leaves
    ELSE LET T == Trees(d - 1)
         IN  T \cup {PyList(<<t>>) : t \in T}
               \cup {PyList(<<t, l>>) : t \in T, l \in Siblings}
               \cup {PyList(<<l, t>>) : t \in T, l \in Siblings}
               \cup {PyDict(<< <<"a", t>> >>) : t \in T}
               \cup {PyDict(<< <<"a", t>>, <<"b", l>> >>) : t \in T, l \in Siblings}
               \cup {PyDict(<< <<"a", l>>, <<"b", t>> >>) : t \in T, l \in Siblings}

InitClean ==
    /\ pc = {}
    /\ tree \in Trees(MaxDepth)
    /\ cleaned = <<>>
    /\ IdleCoerce /\ IdleScore /\ IdleSelect /\ IdleExtract /\ IdleRouter /\ IdleServer

\* the Cleaner is applied to the value, and then again to its own result
CleanData ==
    /\ Len(cleaned) < 2
    /\ cleaned' = Append(cleaned, clean_data(IF cleaned = <<>> THEN tree ELSE cleaned[Len(cleaned)]))
    /\ pc' = {"cleaned"}
    /\ UNCHANGED <<tree, coerceVars, scoreVars, selectVars, extractVars, routerVars, serverVars>>

NextClean == CleanData

SpecClean == InitClean /\ [][NextClean]_vars

\* C9: clean_data is idempotent: clean_data(clean_data(x)) = clean_data(x).
IdempotentCleaning == Len(cleaned) = 2 => cleaned[2] = cleaned[1]

\* clean_data has been applied twice to a value that the first application changed
IdempotentCleaningWitness ==
    /\ Len(cleaned) = 2
    /\ cleaned[1] # tree
    /\ IsDict(tree) /\ Len(cleaned[1][2]) > 0

\* no mapping inside v, at any depth, has a field whose value is None, "",
\* an empty list or an empty dict
RECURSIVE NoEmptyField(_)
NoEmptyField(v) ==
    IF IsDict(v)
    THEN \A i \in DOMAIN v[2] :
            LET f == v[2][i][2]
            IN  /\ ~IsNone(f)
                /\ f # EmptyStr
                /\ ~((IsList(f) \/ IsDict(f)) /\ Len(f[2]) = 0)
                /\ NoEmptyField(f)
    ELSE IF IsList(v) THEN \A i \in DOMAIN v[2] : NoEmptyField(v[2][i])
    ELSE TRUE

\* C10: in the output of clean_data no mapping at any depth, mappings inside
\* sequences included, has a field that is null, "", an empty sequence or an
\* empty mapping.
NoEmptyFieldInOutput == Len(cleaned) >= 1 => NoEmptyField(cleaned[1])

\* a dict nested in a list of a dict lost a field and the output kept the rest
NoEmptyFieldInOutputWitness ==
    /\ Len(cleaned) >= 1
    /\ IsDict(tree) /\ ~NoEmptyField(tree)
    /\ \E i \in DOMAIN cleaned[1][2] :
          LET f == cleaned[1][2][i][2]
          IN  IsList(f) /\ \E j \in DOMAIN f[2] : IsDict(f[2][j])

(***************************************************************************)
(* Fair Selector: select_top_content and generate_results                  *)
(***************************************************************************)
DefaultTarget == 9

\* Python truthiness
Truthy(v) ==
    CASE Tag(v) = "none" -> FALSE
      [] Tag(v) = "bool" -> v[2]
      [] Tag(v) \in {"int", "float"} -> v[2] # 0
      [] Tag(v) \in {"str", "list", "dict"} -> Len(v[2]) > 0
      [] OTHER -> TRUE

\* seq[:n]
SliceTo(seq, n) ==
    IF n >= 0 THEN SubSeq(seq, 1, Min(n, Len(seq)))
    ELSE SubSeq(seq, 1, Max(Len(seq) + n, 0))

\* the indices range(a, b) visits, in order
Range(a, b) == Elements([i \in 1..Max(b - a, 0) |-> a + i - 1])

\* seq[i] for a Python index i (0-based, negative counts from the end) that is in range
InRange(seq, i) == -Len(seq) <= i /\ i < Len(seq)
At(seq, i) == IF i >= 0 THEN seq[i + 1] ELSE seq[Len(seq) + i + 1]

RECURSIVE Flatten(_)
Flatten(seqs) == IF seqs = <<>> THEN <<>> ELSE Head(seqs) \o Flatten(Tail(seqs))

get_url_group(it) == Get(it[2], "URL_GROUP", EmptyStr)

ScoreOf(it) == Get(it[2], "engagement_score", PyFloat(0))[2]

\* list.sort(key=lambda x: x['engagement_score'], reverse=True): stable
RECURSIVE InsertByScore(_, _)
InsertByScore(x, sorted) ==
    IF sorted = <<>> THEN <<x>>
    ELSE IF ScoreOf(Head(sorted)) <= ScoreOf(x) THEN <<x>> \o sorted
    ELSE <<Head(sorted)>> \o InsertByScore(x, Tail(sorted))
RECURSIVE sort_by_score(_)
sort_by_score(seq) ==
    IF seq = <<>> THEN <<>>
    ELSE With(sort_by_score(Tail(seq)), LAMBDA sorted : InsertByScore(Head(seq), sorted))

\* the selection is returned as the base and remainder picks were appended
unsorted(seq) == seq

\* the final sort of the selection
final_sort(seq) == sort_by_score(seq)

\* the distinct elements of seq, in order of first appearance
RECURSIVE FirstAppearances(_)
FirstAppearances(seq) ==
    IF seq = <<>> THEN <<>>
    ELSE With(FirstAppearances(SubSeq(seq, 1, Len(seq) - 1)),
              LAMBDA init : IF \E i \in DOMAIN init : init[i] = seq[Len(seq)]
                            THEN init ELSE Append(init, seq[Len(seq)]))

\* the target taken to be all the available posts
available_target(target_total, total_available_posts) == total_available_posts

\* actual_target = min(target_total, total_available_posts)
min_target(target_total, total_available_posts) == Min(target_total, total_available_posts)

\* if actual_target < target_total: the largest of 9, 6, 3 that fits, if any
snap_target(actual_target, target_total) ==
    IF actual_target < target_total
    THEN IF 9 <= actual_target THEN 9
         ELSE IF 6 <= actual_target THEN 6
         ELSE IF 3 <= actual_target THEN 3
         ELSE actual_target
    ELSE actual_target

\* the base allocation one post short
base_allocation_short(posts, base) ==
    Flatten(Elements([g \in DOMAIN posts |->
                SubSeq(posts[g], 1, Max(Min(base - 1, Len(posts[g])), 0))]))

\* first, each URL group's base allocation: its top min(base, len) posts
base_allocation(posts, base) ==
    Flatten(Elements([g \in DOMAIN posts |->
                SubSeq(posts[g], 1, Max(Min(base, Len(posts[g])), 0))]))

\* every index of a group that has more than base posts
all_indices(group, base) ==
    IF Len(group) > base THEN Range(0, Len(group)) ELSE <<>>

\* range(base, len(available_content)) for a group that has more than base posts
rest_indices(group, base) ==
    IF Len(group) > base THEN Range(base, Len(group)) ELSE <<>>

\* The remaining content of every group, tagged with source_url_group, sorted
\* by score.  available_content[i] raises IndexError for i < -len.
remaining_pool(posts, url_groups, base) ==
    IF \E g \in DOMAIN posts : \E k \in DOMAIN rest_indices(posts[g], base) :
            ~InRange(posts[g], rest_indices(posts[g], base)[k])
    THEN Raise("IndexError")
    ELSE Ok(sort_by_score(Flatten(Elements([g \in DOMAIN posts |->
            Elements([k \in DOMAIN rest_indices(posts[g], base) |->
                PyDict(Put(At(posts[g], rest_indices(posts[g], base)[k])[2],
                           "source_url_group", url_groups[g]))])]))))

\* no extra post taken from the pool
no_extra_allocation(remaining_content, extra_posts) == <<>>

\* the first min(extra_posts, len(remaining_content)) of the pool, the temporary field removed
extra_allocation(remaining_content, extra_posts) ==
    Elements([i \in 1..Min(extra_posts, Len(remaining_content)) |->
        PyDict(Del(remaining_content[i][2], "source_url_group"))])

\* results.py select_top_content(data, target_total); dat is the sequence of items
select_top_content(dat, target_total) ==
    IF dat = <<>> THEN Ok(PyList(<<>>))
    ELSE
    With(SelectSeq(dat, LAMBDA it : Truthy(get_url_group(it))), LAMBDA grouped :
    With(Elements([i \in DOMAIN grouped |-> calculate_score(grouped[i])]), LAMBDA scores :
        IF ~IsOk(FirstRaise(scores)) THEN FirstRaise(scores)
        ELSE
    With(Elements([i \in DOMAIN grouped |->
             PyDict(Put(grouped[i][2], "engagement_score", PyFloat(scores[i][2])))]),
         LAMBDA with_score :
    With(FirstAppearances(Elements([i \in DOMAIN with_score |-> get_url_group(with_score[i])])),
         LAMBDA url_groups :
    \* url_group_groups[url_group], sorted by score (highest first)
    With(Elements([g \in DOMAIN url_groups |->
             sort_by_score(SelectSeq(with_score, LAMBDA it : get_url_group(it) = url_groups[g]))]),
         LAMBDA posts :
        \* unique_url_groups = len(url_groups); total_available_posts = len(data)
        IF Len(url_groups) = 0 THEN Ok(PyList(<<>>))
        ELSE
    With(snap_target(min_target(target_total, Len(with_score)), target_total),
         LAMBDA actual_target :
    \* base_posts_per_url_group = actual_target // unique_url_groups
    With(actual_target \div Len(url_groups), LAMBDA base_posts_per_url_group :
    \* extra_posts = actual_target % unique_url_groups
    With(actual_target % Len(url_groups), LAMBDA extra_posts :
    With(remaining_pool(posts, url_groups, base_posts_per_url_group),
         LAMBDA remaining_content :
        IF ~IsOk(remaining_content) THEN remaining_content
        ELSE
    With(final_sort(base_allocation(posts, base_posts_per_url_group)
                        \o extra_allocation(remaining_content[2], extra_posts)),
         LAMBDA selected_content :
        Ok(PyList(SliceTo(selected_content, actual_target)))))))))))))

\* str(n) for n >= 0
RECURSIVE str(_)
str(n) == IF n < 10 THEN <<AsciiDigits[n + 1]>> ELSE str(n \div 10) \o <<AsciiDigits[(n % 10) + 1]>>

post_ == <<"p", "o", "s", "t", "_">>

\* the labels counted from 0
number_posts_from_zero(sel) ==
    Elements([i \in DOMAIN sel |->
        PyDict(Put(sel[i][2], "post_number", PyStr(post_ \o str(i - 1))))])

\* for i, item in enumerate(selected_content, 1): item['post_number'] = f"post_{i}"
number_posts(sel) ==
    Elements([i \in DOMAIN sel |->
        PyDict(Put(sel[i][2], "post_number", PyStr(post_ \o str(i))))])

\* results.py generate_results: the content of result.json after the run, old
\* being its content before.  The run returns early on no data and on an empty
\* selection, and writes nothing when it raises (platform_counts[item['platform']]
\* raises KeyError for an item without platform).
generate_results(dat, old) ==
    IF dat = <<>> THEN old
    ELSE With(select_top_content(dat, DefaultTarget), LAMBDA selected_content :
             IF ~IsOk(selected_content) THEN old
             ELSE IF selected_content[2][2] = <<>> THEN old
             ELSE IF \E i \in DOMAIN selected_content[2][2] :
                         ~HasKey(selected_content[2][2][i][2], "platform")
             THEN old
             ELSE number_posts(selected_content[2][2]))

\* item_with_score = item: the score is written into the caller's item
scored_item(it, sc) == PyDict(Put(it[2], "engagement_score", sc))

\* item_with_score = item.copy(); item_with_score['engagement_score'] = score:
\* the caller's item after the two statements
copied_item(it, sc) == it

\* results.py select_top_content: the caller's collection after the call.
\* The loop over data scores the items that carry a URL_GROUP, in order, and
\* ends at the first score that raises.
RECURSIVE data_after_select(_)
data_after_select(dat) ==
    IF dat = <<>> THEN <<>>
    ELSE IF ~Truthy(get_url_group(Head(dat))) THEN <<Head(dat)>> \o data_after_select(Tail(dat))
    ELSE With(calculate_score(Head(dat)), LAMBDA sc :
              IF IsOk(sc)
              THEN <<copied_item(Head(dat), PyFloat(sc[2]))>> \o data_after_select(Tail(dat))
              ELSE dat)

(***************************************************************************)
(* The canonical collections handed to the Fair Selector.  A scraper run   *)
(* appends the records of one input URL in one batch, so the items of one  *)
(* URL group are contiguous; an item whose record carried no URL_GROUP     *)
(* (the Cleaner drops the null field) may precede them.                    *)
(***************************************************************************)
MaxItems == 5       \* most items in data.json
MaxGroups == 3      \* most URL groups

Views == {1, 2}
Targets == {-2, -1, 0, 2, 5, DefaultTarget}

GroupNames == <<"a", "b", "c", "d", "e", "f">>
GroupUrl(g) == PyStr(<<"u", "/", GroupNames[g]>>)

RECURSIVE SumTo(_, _)
SumTo(n, g) == IF g = 0 THEN 0 ELSE n[g] + SumTo(n, g - 1)

\* the group of the item at position i (0: no URL_GROUP), for u ungrouped
\* items followed by n[g] items of each group g
GroupAt(u, n, i) ==
    IF i <= u THEN 0
    ELSE CHOOSE g \in DOMAIN n : SumTo(n, g - 1) < i - u /\ i - u <= SumTo(n, g)

ContentItem(i, g, v) ==
    PyDict(<< <<"platform", PyStr(tiktok)>>, <<"id", PyInt(i)>>,
              <<"stats", PyDict(<< <<"views", PyInt(v)>> >>)>> >>
           \o (IF g = 0 THEN <<>> ELSE << <<"URL_GROUP", GroupUrl(g)>> >>))

Collection(u, n, v) ==
    Elements([i \in 1..(u + SumTo(n, Len(n))) |-> ContentItem(i, GroupAt(u, n, i), v[i])])

InitSelect ==
    /\ pc = {}
    /\ \E u \in 0..1 : \E n \in [1..MaxGroups -> 0..MaxItems] :
          /\ u + SumTo(n, MaxGroups) <= MaxItems
          /\ \E v \in [1..(u + SumTo(n, MaxGroups)) -> Views] : data = Collection(u, n, v)
    /\ target = 0 /\ selected = Idle /\ result_json = <<>>
    /\ IdleCoerce /\ IdleScore /\ IdleClean /\ IdleExtract /\ IdleRouter /\ IdleServer

\* a caller selects from the collection with a target of its choice
SelectTopContent(Ts) ==
    /\ pc = {}
    /\ \E T \in Ts :
          /\ target' = T
          /\ selected' = select_top_content(data, T)
    /\ data' = data_after_select(data)
    /\ pc' = {"selected"}
    /\ UNCHANGED <<result_json, coerceVars, scoreVars, cleanVars, extractVars, routerVars, serverVars>>

\* results.py runs on data.json
GenerateResults ==
    /\ pc = {}
    /\ result_json' = generate_results(data, result_json)
    /\ pc' = {"generated"}
    /\ UNCHANGED <<data, target, selected, coerceVars, scoreVars, cleanVars, extractVars, routerVars, serverVars>>

NextSelect == SelectTopContent(Targets) \/ GenerateResults

SpecSelect == InitSelect /\ [][NextSelect]_vars

\* The scenarios of the spec's section 8: three URL groups, each holding one
\* to five items, 7 or 9 items in all, selected with the default target.
InitScenario ==
    /\ pc = {}
    /\ \E n \in [1..3 -> 1..5] :
          /\ SumTo(n, 3) \in {7, 9}
          /\ \E v \in [1..SumTo(n, 3) -> Views] : data = Collection(0, n, v)
    /\ target = 0 /\ selected = Idle /\ result_json = <<>>
    /\ IdleCoerce /\ IdleScore /\ IdleClean /\ IdleExtract /\ IdleRouter /\ IdleServer

NextScenario == SelectTopContent({DefaultTarget}) \/ GenerateResults

SpecScenario == InitScenario /\ [][NextScenario]_vars

(***************************************************************************)
(* Claims about the Fair Selector                                          *)
(***************************************************************************)
\* the items of seq that carry a URL_GROUP
WithUrlGroup(seq) == {i \in DOMAIN seq : Truthy(get_url_group(seq[i]))}
\* the URL groups of seq
UrlGroups(seq) == {get_url_group(seq[i]) : i \in WithUrlGroup(seq)}
\* the number of items of group g in seq
CountOf(seq, g) == Cardinality({i \in DOMAIN seq : get_url_group(seq[i]) = g})
\* the items select_top_content returned
Returned == selected[2][2]
\* the possibly snapped target and the base share of the call
ActualTarget == snap_target(Min(target, Cardinality(WithUrlGroup(data))), target)
BaseShare == ActualTarget \div Cardinality(UrlGroups(data))

\* C1 as stated: for every integer target T the number of returned items is
\* at most T and at most the number of input items that carry a URL_GROUP.
SelectionCapAnyTarget ==
    pc = {"selected"} =>
        /\ IsOk(selected)
        /\ Len(Returned) <= target
        /\ Len(Returned) <= Cardinality(WithUrlGroup(data))

\* C1 as amended: for every integer target T >= 0 the call returns, and the
\* number of returned items is at most T and at most the number of input
\* items that carry a URL_GROUP.
SelectionCap ==
    (pc = {"selected"} /\ target >= 0) =>
        /\ IsOk(selected)
        /\ Len(Returned) <= target
        /\ Len(Returned) <= Cardinality(WithUrlGroup(data))

\* a target of 2 was met from a collection holding more than 2 grouped items
\* and an item without URL_GROUP
SelectionCapWitness ==
    /\ pc = {"selected"} /\ target = 2
    /\ Cardinality(WithUrlGroup(data)) > 2
    /\ Cardinality(WithUrlGroup(data)) < Len(data)
    /\ IsOk(selected) /\ Len(Returned) = 2

\* C2: every URL group g has at least the base share actual_target // G of
\* items in the result, or all its items when it has fewer; the call returns
\* for every target >= 0.
SelectionFairness ==
    pc = {"selected"} =>
        /\ target >= 0 => IsOk(selected)
        /\ IsOk(selected) =>
              \A g \in UrlGroups(data) :
                  CountOf(Returned, g) >= Min(BaseShare, CountOf(data, g))

\* one group had fewer items than the base share and gave them all, another
\* gave more than the base share
SelectionFairnessWitness ==
    /\ pc = {"selected"} /\ IsOk(selected)
    /\ UrlGroups(data) # {} /\ BaseShare >= 2
    /\ \E g \in UrlGroups(data) :
          CountOf(data, g) < BaseShare /\ CountOf(Returned, g) = CountOf(data, g)
    /\ \E g \in UrlGroups(data) : CountOf(Returned, g) > BaseShare

\* C3: with T = 9 and exactly 7 available items spread over 3 or more URL
\* groups, select_top_content returns exactly 6 items.
SnapToSix ==
    (/\ pc = {"selected"} /\ target = 9
     /\ Len(data) = 7 /\ Cardinality(WithUrlGroup(data)) = 7
     /\ Cardinality(UrlGroups(data)) >= 3)
        => (IsOk(selected) /\ Len(Returned) = 6)

\* C4: with 3 URL groups holding 5, 3 and 1 items and T = 9, the call returns
\* 9 items: the group with 1 item contributes 1, each other group its top 3,
\* and the remainder pool fills the gap from the leftovers of the other groups.
RemainderFillsGap ==
    (/\ pc = {"selected"} /\ target = 9
     /\ Cardinality(UrlGroups(data)) = 3
     /\ {CountOf(data, g) : g \in UrlGroups(data)} = {5, 3, 1})
        => /\ IsOk(selected)
           /\ Len(Returned) = 9
           /\ \A g \in UrlGroups(data) :
                 CountOf(Returned, g) >= Min(3, CountOf(data, g))

\* the label post_<i>, read back: the prefix and the number its digits spell
PostNumber(it) == Get(it[2], "post_number", EmptyStr)[2]
LabelledAs(it, i) ==
    /\ SubSeq(PostNumber(it), 1, Len(post_)) = post_
    /\ Len(PostNumber(it)) > Len(post_)
    /\ \A k \in (Len(post_) + 1)..Len(PostNumber(it)) : IsAsciiDigit(PostNumber(it)[k])
    /\ DecimalValue(SubSeq(PostNumber(it), Len(post_) + 1, Len(PostNumber(it)))) = i

\* C5: the selection written by generate_results is ordered by
\* engagement_score, non-increasing, and the item at position i carries
\* post_number post_<i>: the labels are post_1..post_k, no gap, no repeat.
RankedAndNumbered ==
    pc = {"generated"} =>
        /\ \A i \in 1..(Len(result_json) - 1) :
              ScoreOf(result_json[i]) >= ScoreOf(result_json[i + 1])
        /\ \A i \in DOMAIN result_json : LabelledAs(result_json[i], i)

\* a selection of three items of two groups with different scores was written,
\* the first group's best item scoring below the second group's
RankedAndNumberedWitness ==
    /\ pc = {"generated"}
    /\ Len(result_json) = 3
    /\ ScoreOf(result_json[1]) > ScoreOf(result_json[3])
    /\ get_url_group(result_json[1]) # get_url_group(data[1])

(***************************************************************************)
(* Python operations the extractors and the Router use                     *)
(***************************************************************************)
\* the string literals of retrieve.py
unknown == <<"u", "n", "k", "n", "o", "w", "n">>
video == <<"v", "i", "d", "e", "o">>
image == <<"i", "m", "a", "g", "e">>
carousel == <<"c", "a", "r", "o", "u", "s", "e", "l">>
post == <<"p", "o", "s", "t">>
text == <<"t", "e", "x", "t">>
short == <<"s", "h", "o", "r", "t">>
photo == <<"p", "h", "o", "t", "o">>
Video == <<"V", "i", "d", "e", "o">>
linkedinVideo == <<"l", "i", "n", "k", "e", "d", "i", "n", "V", "i", "d", "e", "o">>
video_mp4 == <<"v", "i", "d", "e", "o", "/", "m", "p", "4">>
thread_with_videos == <<"t", "h", "r", "e", "a", "d", "_", "w", "i", "t", "h", "_", "v", "i", "d", "e", "o", "s">>
thread_with_images == <<"t", "h", "r", "e", "a", "d", "_", "w", "i", "t", "h", "_", "i", "m", "a", "g", "e", "s">>
instagram_com == <<"i", "n", "s", "t", "a", "g", "r", "a", "m", ".", "c", "o", "m">>
linkedin_com == <<"l", "i", "n", "k", "e", "d", "i", "n", ".", "c", "o", "m">>
twitter_com == <<"t", "w", "i", "t", "t", "e", "r", ".", "c", "o", "m">>
x_com == <<"x", ".", "c", "o", "m">>
youtube_com == <<"y", "o", "u", "t", "u", "b", "e", ".", "c", "o", "m">>
tiktok_com == <<"t", "i", "k", "t", "o", "k", ".", "c", "o", "m">>
https_instagram_com == <<"h", "t", "t", "p", "s", ":", "/", "/", "i", "n", "s", "t", "a", "g", "r", "a", "m", ".", "c", "o", "m", "/">>
https_x_com == <<"h", "t", "t", "p", "s", ":", "/", "/", "x", ".", "c", "o", "m", "/">>
status == <<"/", "s", "t", "a", "t", "u", "s", "/">>

\* d.get(k) and d.get(k, dflt) for a dict d
get(d, k) == Get(d[2], k, None)
getd(d, k, dflt) == Get(d[2], k, dflt)

\* v.get(k, dflt) for any value v: only a dict has the attribute
attr_get(v, k, dflt) == IF IsDict(v) THEN Ok(Get(v[2], k, dflt)) ELSE Raise("AttributeError")

\* a or b, for outcomes of safe_int: b is evaluated only when a is 0
Or(a, b) == IF ~IsOk(a) THEN a ELSE IF a[2] # 0 THEN a ELSE b

\* len(v)
len(v) ==
    IF Tag(v) \in {"str", "list", "dict"} THEN Ok(Len(v[2])) ELSE Raise("TypeError")

\* the values iterating over v yields: the elements of a list, the characters
\* of a string, the keys of a dict (each kept as one symbol)
iterate(v) ==
    CASE Tag(v) = "list" -> Ok(v[2])
      [] Tag(v) = "str" -> Ok(Elements([i \in DOMAIN v[2] |-> PyStr(<<v[2][i]>>)]))
      [] Tag(v) = "dict" -> Ok(Elements([i \in DOMAIN v[2] |-> PyStr(<<v[2][i][1]>>)]))
      [] OTHER -> Raise("TypeError")

\* sub in s, for strings
Contains(s, sub) ==
    \E i \in 0..(Len(s) - Len(sub)) : SubSeq(s, i + 1, i + Len(sub)) = sub

\* s.startswith(p)
startswith(s, p) == Len(s) >= Len(p) /\ SubSeq(s, 1, Len(p)) = p

\* the position of the first occurrence of sub in s (0: none), sub non-empty
Find(s, sub) ==
    IF Contains(s, sub)
    THEN 1 + CHOOSE i \in 0..(Len(s) - Len(sub)) :
                /\ SubSeq(s, i + 1, i + Len(sub)) = sub
                /\ \A j \in 0..(i - 1) : SubSeq(s, j + 1, j + Len(sub)) # sub
    ELSE 0

\* s.split(sep): the parts between the occurrences of sep, left to right
RECURSIVE split(_, _)
split(s, sep) ==
    IF Find(s, sep) = 0 THEN <<s>>
    ELSE <<SubSeq(s, 1, Find(s, sep) - 1)>>
             \o split(SubSeq(s, Find(s, sep) + Len(sep), Len(s)), sep)

\* s.replace(old, new)
RECURSIVE replace(_, _, _)
replace(s, old, new) ==
    IF Find(s, old) = 0 THEN s
    ELSE SubSeq(s, 1, Find(s, old) - 1) \o new
             \o replace(SubSeq(s, Find(s, old) + Len(old), Len(s)), old, new)

\* s.split(): the words between runs of whitespace (the model's whitespace is " ")
words(s) == SelectSeq(split(s, <<" ">>), LAMBDA w : w # <<>>)

\* w.strip('#')
RECURSIVE lstrip_hash(_)
lstrip_hash(w) == IF w # <<>> /\ Head(w) = "#" THEN lstrip_hash(Tail(w)) ELSE w
RECURSIVE rstrip_hash(_)
rstrip_hash(w) ==
    IF w # <<>> /\ w[Len(w)] = "#" THEN rstrip_hash(SubSeq(w, 1, Len(w) - 1)) ELSE w
strip_hash(w) == rstrip_hash(lstrip_hash(w))

\* [word.strip('#') for word in s.split() if word.startswith('#')]
hash_words(s) ==
    With(SelectSeq(words(s), LAMBDA w : startswith(w, <<"#">>)),
         LAMBDA tagged : Elements([i \in DOMAIN tagged |-> PyStr(strip_hash(tagged[i]))]))

\* the text an f-string or str() gives for a string, an integer, None or a bool
format(v) ==
    CASE Tag(v) = "str" -> v[2]
      [] Tag(v) = "int" -> IF v[2] >= 0 THEN str(v[2]) ELSE <<"-">> \o str(-v[2])
      [] Tag(v) = "none" -> <<"N", "o", "n", "e">>
      [] Tag(v) = "bool" -> IF v[2] THEN <<"T", "r", "u", "e">> ELSE <<"F", "a", "l", "s", "e">>

\* a field added to a dict under construction only if cond holds
Opt(cond, k, v) == IF cond THEN << <<k, v>> >> ELSE <<>>

\* the outcome of a call that returned a number, as a Python int
OkInt(o) == PyInt(o[2])

\* F applied to what the call with outcome o returned; the exception if it raised
Try(o, F(_)) == With(o, LAMBDA r : IF IsOk(r) THEN F(r[2]) ELSE r)

\* a or b, for values
ValOr(a, b) == IF Truthy(a) THEN a ELSE b

\* s.strip(), the model's whitespace being " "
RECURSIVE lstrip(_)
lstrip(s) == IF s # <<>> /\ Head(s) = " " THEN lstrip(Tail(s)) ELSE s
RECURSIVE rstrip(_)
rstrip(s) == IF s # <<>> /\ s[Len(s)] = " " THEN rstrip(SubSeq(s, 1, Len(s) - 1)) ELSE s
strip(s) == rstrip(lstrip(s))

\* v[0] for a truthy value v
first(v) ==
    CASE Tag(v) = "list" -> Ok(v[2][1])
      [] Tag(v) = "str" -> Ok(PyStr(<<v[2][1]>>))
      [] Tag(v) = "dict" -> Raise("KeyError")
      [] OTHER -> Raise("TypeError")

\* the outcomes of f on the elements of seq, in order: the list of what they
\* returned, or the first exception
AllOk(os) == IF IsOk(FirstRaise(os)) THEN Ok(Elements([i \in DOMAIN os |-> os[i][2]])) ELSE FirstRaise(os)

(***************************************************************************)
(* Field Extractors (retrieve.py)                                          *)
(***************************************************************************)
\* the six counters an extractor coerces, in the order the code evaluates them
coerce_stats(src, keys) ==
    AllOk(Elements([i \in DOMAIN keys |-> retrieve_safe_int(getd(src, keys[i][2], PyInt(0)))]))

\* the stats dict built from the coerced counters
stats_dict(keys, counts) ==
    PyDict(Elements([i \in DOMAIN keys |-> <<keys[i][1], PyInt(counts[i])>>]))

\* image_urls of extract_instagram_fields: imageUrl, else the images
instagram_image_urls(rec) ==
    IF Truthy(get(rec, "imageUrl")) THEN Ok(<<get(rec, "imageUrl")>>)
    ELSE IF Truthy(get(rec, "images")) THEN iterate(getd(rec, "images", PyList(<<>>)))
    ELSE Ok(<<>>)

\* hashtags of extract_instagram_fields: a string is scanned for #words
instagram_hashtags(rec) ==
    With(getd(rec, "hashtags", PyList(<<>>)),
         LAMBDA hashtags : IF IsStr(hashtags) THEN PyList(hash_words(hashtags[2])) ELSE hashtags)

\* media_count counted from the video only
media_count_video_only(video_url, image_urls) == IF Truthy(video_url) THEN 1 ELSE 0

\* (1 if video_url else 0) + len(image_urls)
media_count(video_url, image_urls) == (IF Truthy(video_url) THEN 1 ELSE 0) + Len(image_urls)

\* retrieve.py extract_instagram_fields
extract_instagram_fields(rec) ==
    With(getd(rec, "type", PyStr(unknown)), LAMBDA type :
    IF ~IsStr(type) THEN Raise("AttributeError")
    ELSE
    With(IF lower(type[2]) \in {video, image, carousel} THEN lower(type[2])
         ELSE IF Truthy(get(rec, "videoUrl")) THEN video ELSE image, LAMBDA post_type :
    With(get(rec, "videoUrl"), LAMBDA video_url :
    Try(instagram_image_urls(rec), LAMBDA image_urls :
    Try(Or(retrieve_safe_int(getd(rec, "videoViewCount", PyInt(0))),
           retrieve_safe_int(getd(rec, "videoPlayCount", PyInt(0)))), LAMBDA views :
    Try(retrieve_safe_int(getd(rec, "likesCount", PyInt(0))), LAMBDA likes :
    Try(retrieve_safe_int(getd(rec, "commentsCount", PyInt(0))), LAMBDA comments :
    Ok(clean_data(PyDict(
        << <<"platform", PyStr(instagram)>>,
           <<"content_type", PyStr(post)>>,
           <<"type", PyStr(post_type)>>,
           <<"url", get(rec, "url")>>,
           <<"text", getd(rec, "caption", PyStr(<<>>))>>,
           <<"video_url", video_url>>,
           <<"image_urls", PyList(image_urls)>>,
           <<"media_count", PyInt(media_count(video_url, image_urls))>>,
           <<"stats", PyDict(<< <<"views", PyInt(views)>>, <<"likes", PyInt(likes)>>,
                                <<"comments", PyInt(comments)>>, <<"shares", None>> >>)>>,
           <<"hashtags", instagram_hashtags(rec)>>,
           <<"author", PyDict(
                << <<"username", get(rec, "ownerUsername")>> >>
                \o Opt(Truthy(get(rec, "ownerFullName")), "name", get(rec, "ownerFullName"))
                \o Opt(Truthy(get(rec, "ownerUsername")), "profile_url",
                       PyStr(https_instagram_com \o format(get(rec, "ownerUsername")))))>>,
           <<"URL_GROUP", get(rec, "URL_GROUP")>> >>
        \o Opt(Truthy(get(rec, "id")), "id", get(rec, "id"))))))))))))

\* the hashtag one entry of TikTok's hashtags list contributes, if any
tiktok_tag(tag) ==
    IF IsDict(tag) /\ Truthy(get(tag, "name")) THEN <<get(tag, "name")>>
    ELSE IF IsStr(tag) THEN <<tag>>
    ELSE <<>>

\* hashtags of extract_tiktok_fields
tiktok_hashtags(rec) ==
    IF Truthy(get(rec, "hashtags"))
    THEN Try(iterate(getd(rec, "hashtags", PyList(<<>>))),
             LAMBDA tags : Ok(Flatten(Elements([i \in DOMAIN tags |-> tiktok_tag(tags[i])]))))
    ELSE Ok(<<>>)

TikTokStatKeys ==
    << <<"views", "playCount">>, <<"likes", "diggCount">>, <<"comments", "commentCount">>,
       <<"shares", "shareCount">>, <<"collects", "collectCount">> >>

\* retrieve.py extract_tiktok_fields
extract_tiktok_fields(rec) ==
    With(getd(rec, "authorMeta", PyDict(<<>>)), LAMBDA author_meta :
    Try(coerce_stats(rec, TikTokStatKeys), LAMBDA counts :
    Try(tiktok_hashtags(rec), LAMBDA hashtags :
    With(ValOr(get(rec, "webVideoUrl"), get(rec, "videoUrl")), LAMBDA video_url :
    IF ~IsDict(author_meta) THEN Raise("AttributeError")
    ELSE
    Try(retrieve_safe_int(getd(author_meta, "fans", PyInt(0))), LAMBDA fans :
    Ok(clean_data(PyDict(
        << <<"platform", PyStr(tiktok)>>,
           <<"content_type", PyStr(video)>>,
           <<"type", PyStr(video)>>,
           <<"url", video_url>>,
           <<"text", getd(rec, "text", PyStr(<<>>))>>,
           <<"video_url", video_url>>,
           <<"image_urls", PyList(<<>>)>>,
           <<"media_count", PyInt(media_count_video_only(video_url, <<>>))>>,
           <<"stats", stats_dict(TikTokStatKeys, counts)>>,
           <<"hashtags", PyList(hashtags)>>,
           <<"author", PyDict(
                Opt(Truthy(get(author_meta, "nickName")), "name", get(author_meta, "nickName"))
                \o Opt(Truthy(get(author_meta, "name")), "username", get(author_meta, "name"))
                \o Opt(Truthy(get(author_meta, "profileUrl")), "profile_url",
                       get(author_meta, "profileUrl"))
                \o Opt(fans > 0, "followers_count", PyInt(fans)))>>,
           <<"URL_GROUP", get(rec, "URL_GROUP")>> >>
        \o Opt(Truthy(get(rec, "id")), "id", get(rec, "id"))
        \o Opt(Truthy(get(rec, "videoDuration")), "duration", get(rec, "videoDuration"))))))))))

\* post_type, video_url and image_urls of extract_linkedin_fields
linkedin_media(rec) ==
    IF get(rec, "type") = PyStr(linkedinVideo)
    THEN Try(attr_get(getd(rec, "linkedinVideo", PyDict(<<>>)), "videoPlayMetadata", PyDict(<<>>)),
             LAMBDA video_meta :
         Try(attr_get(video_meta, "progressiveStreams", PyList(<<>>)), LAMBDA progressive_streams :
         IF ~Truthy(progressive_streams) THEN Ok(<<video, None, PyList(<<>>)>>)
         ELSE
         Try(first(progressive_streams), LAMBDA stream :
         Try(attr_get(stream, "streamingLocations", PyList(<<>>)), LAMBDA stream_locations :
         IF ~Truthy(stream_locations) THEN Ok(<<video, None, PyList(<<>>)>>)
         ELSE
         Try(first(stream_locations), LAMBDA location :
         Try(attr_get(location, "url", None), LAMBDA url :
         Ok(<<video, url, PyList(<<>>)>>)))))))
    ELSE IF Truthy(get(rec, "images"))
    THEN With(getd(rec, "images", PyList(<<>>)), LAMBDA images :
         Try(first(images), LAMBDA img0 :
         IF IsDict(img0)
         THEN \* [img.get('url') for img in image_urls if img.get('url')]
              Try(AllOk(Elements([i \in DOMAIN images[2] |-> attr_get(images[2][i], "url", None)])),
                  LAMBDA urls : Ok(<<image, None, PyList(SelectSeq(urls, Truthy))>>))
         ELSE Ok(<<image, None, images>>)))
    ELSE Ok(<<text, None, PyList(<<>>)>>)

\* hashtags scanned from a text: text.split() raises for a truthy non-string
text_hashtags(t) ==
    IF ~Truthy(t) THEN Ok(<<>>)
    ELSE IF IsStr(t) THEN Ok(hash_words(t[2]))
    ELSE Raise("AttributeError")

LinkedInStatKeys ==
    << <<"likes", "numLikes">>, <<"comments", "numComments">>, <<"shares", "numShares">> >>

\* f"{author.get('firstName', '')} {author.get('lastName', '')}".strip()
linkedin_author_name(author) ==
    strip(format(getd(author, "firstName", PyStr(<<>>))) \o <<" ">>
              \o format(getd(author, "lastName", PyStr(<<>>))))

\* retrieve.py extract_linkedin_fields
extract_linkedin_fields(rec) ==
    With(getd(rec, "author", PyDict(<<>>)), LAMBDA author :
    Try(linkedin_media(rec), LAMBDA media :
    Try(coerce_stats(rec, LinkedInStatKeys), LAMBDA counts :
    Try(text_hashtags(getd(rec, "text", PyStr(<<>>))), LAMBDA hashtags :
    IF ~IsDict(author) THEN Raise("AttributeError")
    ELSE
    Ok(clean_data(PyDict(
        << <<"platform", PyStr(linkedin)>>,
           <<"content_type", PyStr(post)>>,
           <<"type", PyStr(media[1])>>,
           <<"url", get(rec, "url")>>,
           <<"text", getd(rec, "text", PyStr(<<>>))>>,
           <<"video_url", media[2]>>,
           <<"image_urls", media[3]>>,
           <<"media_count", PyInt(media_count(media[2], media[3][2]))>>,
           <<"stats", PyDict(stats_dict(LinkedInStatKeys, counts)[2] \o << <<"views", None>> >>)>>,
           <<"hashtags", PyList(hashtags)>>,
           <<"author", PyDict(
                Opt(linkedin_author_name(author) # <<>>, "name",
                    PyStr(linkedin_author_name(author)))
                \o Opt(Truthy(get(author, "publicId")), "username", get(author, "publicId"))
                \o Opt(Truthy(get(author, "occupation")), "headline", get(author, "occupation"))
                \o Opt(Truthy(get(author, "profileUrl")) \/ Truthy(get(rec, "authorProfileUrl")),
                       "profile_url",
                       ValOr(get(author, "profileUrl"), get(rec, "authorProfileUrl"))))>>,
           <<"URL_GROUP", get(rec, "URL_GROUP")>> >>
        \o Opt(Truthy(get(rec, "urn")), "id", get(rec, "urn"))
        \o Opt(Truthy(get(rec, "activityDescription")), "activity_description",
               get(rec, "activityDescription")))))))))

\* total_seconds of the duration text s, which contains 'PT': the minutes
\* before the first 'M', then the seconds left once every 'S' is removed
youtube_total_seconds(s) ==
    With(replace(s, <<"P", "T">>, <<>>), LAMBDA duration_str :
    Try(IF Contains(duration_str, <<"M">>)
        THEN int(PyStr(split(duration_str, <<"M">>)[1]))
        ELSE Ok(0), LAMBDA minutes :
    With(IF Contains(duration_str, <<"M">>) THEN split(duration_str, <<"M">>)[2]
         ELSE duration_str, LAMBDA rest :
    Try(IF Contains(rest, <<"S">>) /\ replace(rest, <<"S">>, <<>>) # <<>>
        THEN int(PyStr(replace(rest, <<"S">>, <<>>)))
        ELSE Ok(0), LAMBDA seconds :
    Ok(minutes * 60 + seconds)))))

\* video_type of extract_youtube_fields: "short" when the duration parses to
\* at most 60 seconds; any exception while parsing leaves "video"
youtube_video_type(duration) ==
    IF ~Truthy(duration) THEN video
    ELSE IF ~Contains(format(duration), <<"P", "T">>) THEN video
    ELSE With(youtube_total_seconds(format(duration)), LAMBDA total_seconds :
              IF IsOk(total_seconds) /\ total_seconds[2] <= 60 THEN short ELSE video)

YouTubeStatKeys ==
    << <<"views", "viewCount">>, <<"likes", "likeCount">>, <<"comments", "commentCount">> >>

\* retrieve.py extract_youtube_fields
extract_youtube_fields(rec) ==
    Try(coerce_stats(rec, YouTubeStatKeys), LAMBDA counts :
    With(get(rec, "url"), LAMBDA video_url :
    With(get(rec, "thumbnailUrl"), LAMBDA thumbnail_url :
    With(get(rec, "duration"), LAMBDA duration :
    With(getd(rec, "title", PyStr(<<>>)), LAMBDA title :
    With(getd(rec, "description", PyStr(<<>>)), LAMBDA description :
    Try(retrieve_safe_int(getd(rec, "subscriberCount", PyInt(0))), LAMBDA subscribers :
    Ok(clean_data(PyDict(
        << <<"platform", PyStr(youtube)>>,
           <<"content_type", PyStr(video)>>,
           <<"type", PyStr(youtube_video_type(duration))>>,
           <<"url", video_url>>,
           <<"text", title>>,
           <<"description", description>>,
           <<"video_url", video_url>>,
           <<"image_urls", PyList(IF Truthy(thumbnail_url) THEN <<thumbnail_url>> ELSE <<>>)>>,
           <<"media_count", PyInt(media_count_video_only(video_url, <<>>))>>,
           <<"stats", PyDict(stats_dict(YouTubeStatKeys, counts)[2] \o << <<"shares", None>> >>)>>,
           <<"hashtags", PyList(hash_words(format(title) \o <<" ">> \o format(description)))>>,
           <<"author", PyDict(
                << <<"name", get(rec, "channelName")>>,
                   <<"subscribers_count", PyInt(subscribers)>> >>
                \o Opt(Truthy(get(rec, "channelHandle")), "username", get(rec, "channelHandle"))
                \o Opt(Truthy(get(rec, "channelUrl")), "profile_url", get(rec, "channelUrl")))>>,
           <<"URL_GROUP", get(rec, "URL_GROUP")>> >>
        \o Opt(Truthy(get(rec, "videoId")), "id", get(rec, "videoId"))
        \o Opt(Truthy(get(rec, "publishedAt")), "timestamp", get(rec, "publishedAt"))
        \o Opt(Truthy(duration), "duration", duration)
        \o Opt(Truthy(thumbnail_url), "thumbnail_url", thumbnail_url)))))))))))

\* max(mp4_variants, key=lambda x: x.get('bitrate', 0)): the first variant of
\* the highest bitrate; comparing bitrates that are not numbers raises.  The
\* bitrates of the model are integers.
max_bitrate(variants) ==
    IF Len(variants) > 1 /\ \E i \in DOMAIN variants : Tag(getd(variants[i], "bitrate", PyInt(0))) # "int"
    THEN Raise("TypeError")
    ELSE Ok(variants[CHOOSE i \in DOMAIN variants :
                /\ \A j \in DOMAIN variants :
                       getd(variants[j], "bitrate", PyInt(0))[2] <= getd(variants[i], "bitrate", PyInt(0))[2]
                /\ \A j \in 1..(i - 1) :
                       getd(variants[j], "bitrate", PyInt(0))[2] < getd(variants[i], "bitrate", PyInt(0))[2]])

\* the video URL of a video descriptor without highest_quality_video_url:
\* the URL of the best video/mp4 variant, else the URL found so far
variant_video_url(media_item, video_url) ==
    Try(attr_get(getd(media_item, "video_info", PyDict(<<>>)), "variants", PyList(<<>>)),
        LAMBDA variants_value :
    Try(iterate(variants_value), LAMBDA variants :
    Try(AllOk(Elements([i \in DOMAIN variants |-> attr_get(variants[i], "content_type", None)])),
        LAMBDA content_types :
    With(SelectSeq(Elements([i \in DOMAIN variants |-> <<variants[i], content_types[i]>>]),
                   LAMBDA p : p[2] = PyStr(video_mp4)), LAMBDA mp4_variants :
    IF mp4_variants = <<>> THEN Ok(video_url)
    ELSE Try(max_bitrate(Elements([i \in DOMAIN mp4_variants |-> mp4_variants[i][1]])),
             LAMBDA highest_quality : Ok(get(highest_quality, "url")))))))

\* one pass of the loop of determine_post_type_and_media; acc is
\* <<post_type, video_url, image_urls>>
media_step(media_item, acc) ==
    IF ~IsDict(media_item) THEN Raise("AttributeError")
    ELSE IF get(media_item, "type") = PyStr(video)
    THEN IF HasKey(media_item[2], "highest_quality_video_url")
         THEN Ok(<<video, get(media_item, "highest_quality_video_url"), acc[3]>>)
         ELSE Try(variant_video_url(media_item, acc[2]), LAMBDA url : Ok(<<video, url, acc[3]>>))
    ELSE IF get(media_item, "type") = PyStr(photo)
    THEN Ok(<<IF acc[1] = text THEN image ELSE acc[1], acc[2],
              IF Truthy(get(media_item, "media_url"))
              THEN Append(acc[3], get(media_item, "media_url")) ELSE acc[3]>>)
    ELSE Ok(acc)

RECURSIVE scan_media(_, _)
scan_media(media_items, acc) ==
    IF media_items = <<>> THEN Ok(acc)
    ELSE Try(media_step(Head(media_items), acc), LAMBDA next : scan_media(Tail(media_items), next))

\* retrieve.py determine_post_type_and_media
determine_post_type_and_media(media_list) ==
    Try(iterate(media_list), LAMBDA media_items : scan_media(media_items, <<text, None, <<>>>>))

\* retrieve.py extract_urls
extract_urls(rec) ==
    IF HasKey(rec[2], "urls")
    THEN Try(iterate(get(rec, "urls")), LAMBDA url_objs :
             Ok(Elements([i \in DOMAIN url_objs |->
                    IF IsDict(url_objs[i])
                    THEN ValOr(get(url_objs[i], "expanded_url"), get(url_objs[i], "url"))
                    ELSE PyStr(format(url_objs[i]))])))
    ELSE Ok(<<>>)

\* f"https://x.com/{username}" if username else None
profile_url_from_username(username) ==
    IF Truthy(username) THEN PyStr(https_x_com \o format(username)) ELSE None

\* retrieve.py extract_profile_url_from_tweet: any exception of the test or
\* the split falls back to the username
extract_profile_url_from_tweet(tweet_url, username) ==
    IF ~Truthy(tweet_url) THEN profile_url_from_username(username)
    ELSE IF IsStr(tweet_url) /\ Contains(tweet_url[2], status)
    THEN PyStr(split(tweet_url[2], status)[1])
    ELSE profile_url_from_username(username)

TwitterStatKeys ==
    << <<"views", "view_count">>, <<"likes", "favorite_count">>,
       <<"retweets", "retweet_count">>, <<"replies", "reply_count">>,
       <<"quotes", "quote_count">>, <<"bookmarks", "bookmark_count">> >>

\* the author fields of a tweet or a thread, from the user of the (main) tweet
twitter_author(user, followers, profile_url) ==
    PyDict(<< <<"username", get(user, "screen_name")>> >>
        \o Opt(Truthy(get(user, "name")), "name", get(user, "name"))
        \o Opt(Truthy(get(user, "description")), "description", get(user, "description"))
        \o Opt(followers > 0, "followers_count", PyInt(followers))
        \o Opt(Truthy(profile_url), "profile_url", profile_url)
        \o Opt(Truthy(get(user, "location")), "location", get(user, "location"))
        \o Opt(Truthy(get(user, "profile_image_url")), "profile_image_url",
               get(user, "profile_image_url")))

\* len(item.get('media', [])): the raw media descriptors
raw_media_count(media, image_urls) == Len(media[2])

\* retrieve.py extract_single_tweet
extract_single_tweet(rec) ==
    With(getd(rec, "user", PyDict(<<>>)), LAMBDA user :
    Try(determine_post_type_and_media(getd(rec, "media", PyList(<<>>))), LAMBDA media :
    Try(coerce_stats(rec, TwitterStatKeys), LAMBDA counts :
    With(getd(rec, "tweet_url", PyStr(<<>>)), LAMBDA tweet_url :
    IF ~IsDict(user) THEN Raise("AttributeError")
    ELSE
    With(extract_profile_url_from_tweet(tweet_url, get(user, "screen_name")), LAMBDA profile_url :
    Try(extract_urls(rec), LAMBDA urls :
    Try(retrieve_safe_int(getd(user, "followers_count", PyInt(0))), LAMBDA followers :
    Ok(clean_data(PyDict(
        << <<"platform", PyStr(twitter)>>,
           <<"content_type", PyStr(tweet)>>,
           <<"type", PyStr(media[1])>>,
           <<"url", tweet_url>>,
           <<"text", ValOr(getd(rec, "text", PyStr(<<>>)), getd(rec, "full_text", PyStr(<<>>)))>>,
           <<"video_url", media[2]>>,
           <<"image_urls", PyList(media[3])>>,
           <<"media_count", PyInt(raw_media_count(getd(rec, "media", PyList(<<>>)), media[3]))>>,
           <<"stats", stats_dict(TwitterStatKeys, counts)>>,
           <<"hashtags", getd(rec, "hastags", PyList(<<>>))>>,
           <<"urls", PyList(urls)>>,
           <<"author", twitter_author(user, followers, profile_url)>>,
           <<"URL_GROUP", get(rec, "URL_GROUP")>> >>
        \o Opt(Truthy(get(rec, "id")), "id", get(rec, "id"))
        \o Opt(Truthy(get(rec, "created_at_datetime")), "timestamp",
               get(rec, "created_at_datetime"))
        \o Opt(Truthy(get(rec, "lang")), "language", get(rec, "lang"))))))))))))

\* retrieve.py extract_legacy_tweet: the statements of extract_single_tweet,
\* the profile URL computed before the text
extract_legacy_tweet(rec) == extract_single_tweet(rec)

\* the sum of the k-th counter over the tweets
RECURSIVE sum_counts(_, _)
sum_counts(counts, k) ==
    IF counts = <<>> THEN 0 ELSE Head(counts)[k] + sum_counts(Tail(counts), k)

\* the counters of the first tweet only
first_counts(counts, k) == Head(counts)[k]

\* combined_stats[key] += tweet_stats[key], over the tweets
combined_count(counts, k) == sum_counts(counts, k)

\* sep.join(strs): TypeError when an element is not a string
RECURSIVE join(_, _)
join(sep, strs) ==
    IF strs = <<>> THEN Ok(<<>>)
    ELSE IF ~IsStr(Head(strs)) THEN Raise("TypeError")
    ELSE IF Len(strs) = 1 THEN Ok(Head(strs)[2])
    ELSE Try(join(sep, Tail(strs)), LAMBDA rest : Ok(Head(strs)[2] \o sep \o rest))

\* enumerate(thread_tweets, 1)
tweet_number(idx) == idx

\* One pass of the loop of extract_thread over the sub-tweet at position idx:
\* <<tweet_data, counters, video_url, image_urls, len(media)>>
process_tweet(tw, idx) ==
    IF ~IsDict(tw) THEN Raise("AttributeError")
    ELSE
    Try(determine_post_type_and_media(getd(tw, "media", PyList(<<>>))), LAMBDA media :
    Try(coerce_stats(tw, TwitterStatKeys), LAMBDA counts :
    Try(extract_urls(tw), LAMBDA urls :
    Ok(<<PyDict(
        << <<"tweet_number", PyInt(tweet_number(idx))>>,
           <<"text", ValOr(getd(tw, "text", PyStr(<<>>)), getd(tw, "full_text", PyStr(<<>>)))>>,
           <<"type", PyStr(media[1])>>,
           <<"url", get(tw, "tweet_url")>>,
           <<"video_url", media[2]>>,
           <<"image_urls", PyList(media[3])>>,
           <<"media_count", PyInt(raw_media_count(getd(tw, "media", PyList(<<>>)), media[3]))>>,
           <<"stats", stats_dict(TwitterStatKeys, counts)>>,
           <<"hashtags", getd(tw, "hastags", PyList(<<>>))>>,
           <<"urls", PyList(urls)>> >>
        \o Opt(Truthy(get(tw, "id")), "id", get(tw, "id"))
        \o Opt(Truthy(get(tw, "created_at_datetime")), "timestamp", get(tw, "created_at_datetime"))
        \o Opt(Truthy(get(tw, "lang")), "language", get(tw, "lang"))),
        counts, media[2], media[3], Len(getd(tw, "media", PyList(<<>>))[2])>>))))

\* an entry of all_media
media_entry(url, idx, tw) ==
    PyDict(<< <<"url", url>>, <<"tweet_number", PyInt(idx)>>, <<"tweet_id", get(tw, "id")>> >>)

\* all_media['videos'] and all_media['images'], the entries in tweet order
all_videos(tweets, done) ==
    Flatten(Elements([i \in DOMAIN done |->
        IF Truthy(done[i][3]) THEN <<media_entry(done[i][3], i, tweets[i])>> ELSE <<>>]))
all_images(tweets, done) ==
    Flatten(Elements([i \in DOMAIN done |->
        Elements([j \in DOMAIN done[i][4] |-> media_entry(done[i][4][j], i, tweets[i])])]))

RECURSIVE sum_media(_)
sum_media(done) == IF done = <<>> THEN 0 ELSE Head(done)[5] + sum_media(Tail(done))

\* retrieve.py extract_thread: Ok(None) is "no item"
extract_thread(rec) ==
    With(getd(rec, "ordered_tweets", PyList(<<>>)), LAMBDA thread_tweets :
    Try(len(thread_tweets), LAMBDA thread_length :
    IF ~Truthy(thread_tweets) THEN Ok(None)
    ELSE
    Try(iterate(thread_tweets), LAMBDA tweets :
    Try(AllOk(Elements([i \in DOMAIN tweets |-> process_tweet(tweets[i], i)])), LAMBDA done :
    With(Elements([i \in DOMAIN done |-> done[i][2]]), LAMBDA counts :
    With(tweets[1], LAMBDA main_tweet :
    With(getd(main_tweet, "user", PyDict(<<>>)), LAMBDA main_user :
    With(getd(main_tweet, "tweet_url", PyStr(<<>>)), LAMBDA main_tweet_url :
    IF ~IsDict(main_user) THEN Raise("AttributeError")
    ELSE
    With(extract_profile_url_from_tweet(main_tweet_url, get(main_user, "screen_name")),
         LAMBDA profile_url :
    Try(join(<<" ">>, Elements([i \in DOMAIN done |-> get(done[i][1], "text")])),
        LAMBDA combined_text :
    Try(retrieve_safe_int(getd(main_user, "followers_count", PyInt(0))), LAMBDA followers :
    Ok(clean_data(PyDict(
        << <<"platform", PyStr(twitter)>>,
           <<"content_type", PyStr(thread)>>,
           <<"type", PyStr(IF all_videos(tweets, done) # <<>> THEN thread_with_videos
                           ELSE IF all_images(tweets, done) # <<>> THEN thread_with_images
                           ELSE thread)>>,
           <<"url", main_tweet_url>>,
           <<"thread_length", PyInt(thread_length)>>,
           <<"tweets", PyList(Elements([i \in DOMAIN done |-> done[i][1]]))>>,
           <<"combined_text", PyStr(combined_text)>>,
           <<"combined_stats", PyDict(Elements([k \in DOMAIN TwitterStatKeys |->
                                   <<TwitterStatKeys[k][1], PyInt(combined_count(counts, k))>>]))>>,
           <<"all_media", PyDict(<< <<"videos", PyList(all_videos(tweets, done))>>,
                                    <<"images", PyList(all_images(tweets, done))>>,
                                    <<"total_count", PyInt(sum_media(done))>> >>)>>,
           <<"author", twitter_author(main_user, followers, profile_url)>>,
           <<"URL_GROUP", get(rec, "URL_GROUP")>> >>
        \o Opt(Truthy(get(rec, "thread_id")), "id", get(rec, "thread_id"))
        \o Opt(Truthy(get(main_tweet, "created_at_datetime")), "timestamp",
               get(main_tweet, "created_at_datetime"))
        \o Opt(Truthy(get(main_tweet, "lang")), "language", get(main_tweet, "lang"))))))))))))))))

\* retrieve.py extract_twitter_fields
extract_twitter_fields(rec) ==
    IF getd(rec, "content_type", PyStr(tweet)) = PyStr(tweet) THEN extract_single_tweet(rec)
    ELSE IF getd(rec, "content_type", PyStr(tweet)) = PyStr(thread) THEN extract_thread(rec)
    ELSE extract_legacy_tweet(rec)

(***************************************************************************)
(* The raw records handed to the extractors.  Every record is a mapping;   *)
(* a field is absent (Absent), well-formed, or holds a value of another    *)
(* type or null, as the scraping actors' JSON may.                         *)
(***************************************************************************)
MaxThread == 2      \* most sub-tweets of a thread
MaxDurLen == 4      \* longest duration text drawn from DurChars

\* the fields 1..n of names, field i drawn from choices[i] and left out when
\* the choice is Absent
RECURSIVE Fields(_, _, _)
Fields(names, choices, n) ==
    IF n = 0 THEN {<<>>}
    ELSE {ps \o Opt(v # Absent, names[n], v) : ps \in Fields(names, choices, n - 1), v \in choices[n]}

\* all records over the fields names
Records(names, choices) == {PyDict(ps) : ps \in Fields(names, choices, Len(names))}

InstagramRecords ==
    Records(<<"URL_GROUP", "type", "videoUrl", "imageUrl", "images", "hashtags", "videoViewCount">>,
            << {PyStr(<<"h", "t", "t", "p", "s", ":", "/", "/", "i", "n", "s", "t", "a", "g", "r", "a", "m", ".", "c", "o", "m", "/", "u">>)},
               {Absent, None, PyStr(Video), PyStr(<<"I", "m", "a", "g", "e">>)},
               {Absent, PyStr(<<"v">>), PyStr(<<"n", "u", "l", "l">>)},
               {Absent, PyStr(<<"i">>)},
               {Absent, PyList(<<PyStr(<<"i">>)>>), PyList(<<PyStr(<<"i">>), None>>)},
               {Absent, PyStr(<<"#", "a", " ", "b">>), PyList(<<PyStr(<<"#", "a">>)>>)},
               {Absent, PyInt(2), Inf(1)} >>)

TikTokRecords ==
    Records(<<"URL_GROUP", "authorMeta", "webVideoUrl", "hashtags", "playCount">>,
            << {PyStr(<<"h", "t", "t", "p", "s", ":", "/", "/", "t", "i", "k", "t", "o", "k", ".", "c", "o", "m", "/", "u">>)},
               {Absent, None, PyDict(<< <<"name", PyStr(<<"u">>)>>, <<"fans", PyInt(12)>> >>)},
               {Absent, PyStr(<<"v">>), PyStr(<<"n", "u", "l", "l">>)},
               {Absent, PyInt(5),
                PyList(<<PyDict(<< <<"name", PyStr(<<"#", "a">>)>> >>), PyStr(<<"b">>)>>)},
               {Absent, PyStr(<<"1", "2">>), Inf(1)} >>)

LinkedInRecords ==
    Records(<<"URL_GROUP", "type", "linkedinVideo", "images", "text", "author">>,
            << {PyStr(<<"h", "t", "t", "p", "s", ":", "/", "/", "l", "i", "n", "k", "e", "d", "i", "n", ".", "c", "o", "m", "/", "u">>)},
               {Absent, PyStr(linkedinVideo)},
               {Absent, None,
                PyDict(<< <<"videoPlayMetadata", PyDict(<< <<"progressiveStreams", PyList(<<>>)>> >>)>> >>),
                PyDict(<< <<"videoPlayMetadata", PyDict(<< <<"progressiveStreams",
                    PyList(<<PyDict(<< <<"streamingLocations",
                        PyList(<<PyDict(<< <<"url", PyStr(<<"v">>)>> >>)>>)>> >>)>>)>> >>)>> >>)},
               {Absent, PyList(<<PyStr(<<"i">>), PyStr(<<"j">>)>>),
                PyList(<<PyDict(<< <<"url", PyStr(<<"i">>)>> >>), PyDict(<< <<"url", None>> >>)>>)},
               {Absent, PyStr(<<"#", "a", " ", "b">>), PyInt(5)},
               {Absent, None, PyDict(<< <<"firstName", PyStr(<<"a">>)>> >>)} >>)

DurChars == {"P", "T", "M", "S", "H", "1", "6"}

\* every text over DurChars of length at most n
DurationTexts(n) == {PyStr(cs) : cs \in SeqsUpTo(DurChars, n)}

YouTubeRecords ==
    Records(<<"URL_GROUP", "url", "thumbnailUrl", "duration", "title", "viewCount">>,
            << {PyStr(<<"h", "t", "t", "p", "s", ":", "/", "/", "y", "o", "u", "t", "u", "b", "e", ".", "c", "o", "m", "/", "u">>)},
               {Absent, PyStr(<<"v">>)},
               {Absent, PyStr(<<"t">>)},
               {Absent, PyInt(45), PyStr(<<"P", "T", "1", "M">>), PyStr(<<"P", "T", "1", "M", "1", "S">>), PyStr(<<"P", "T", "4", "5", "S">>), PyStr(<<"P", "T", "1", "H">>)},
               {Absent, PyStr(<<"#", "a", " ", "b">>)},
               {Absent, PyInt(3), Inf(1)} >>)
    \cup Records(<<"URL_GROUP", "url", "duration">>,
                 << {PyStr(<<"h", "t", "t", "p", "s", ":", "/", "/", "y", "o", "u", "t", "u", "b", "e", ".", "c", "o", "m", "/", "u">>)}, {PyStr(<<"v">>)}, DurationTexts(MaxDurLen) >>)

PhotoDescriptor == PyDict(<< <<"type", PyStr(photo)>>, <<"media_url", PyStr(<<"i">>)>> >>)
EmptyPhotoDescriptor == PyDict(<< <<"type", PyStr(photo)>>, <<"media_url", PyStr(<<>>)>> >>)
VideoDescriptor == PyDict(<< <<"type", PyStr(video)>>, <<"highest_quality_video_url", PyStr(<<"v">>)>> >>)
VariantsDescriptor ==
    PyDict(<< <<"type", PyStr(video)>>,
              <<"video_info", PyDict(<< <<"variants", PyList(
                  << PyDict(<< <<"content_type", PyStr(video_mp4)>>, <<"bitrate", PyInt(1)>>,
                               <<"url", PyStr(<<"l", "o">>)>> >>),
                     PyDict(<< <<"content_type", PyStr(video_mp4)>>, <<"bitrate", PyInt(2)>>,
                               <<"url", PyStr(<<"h", "i">>)>> >>) >>)>> >>)>> >>)

TweetRecords ==
    Records(<<"URL_GROUP", "content_type", "media", "user", "text", "view_count", "tweet_url">>,
            << {PyStr(<<"h", "t", "t", "p", "s", ":", "/", "/", "x", ".", "c", "o", "m", "/", "e">>)},
               {Absent, PyStr(<<"l", "e", "g", "a", "c", "y">>)},
               {Absent, None, PyList(<<PhotoDescriptor>>),
                PyList(<<VideoDescriptor, EmptyPhotoDescriptor>>), PyList(<<VariantsDescriptor>>)},
               {Absent, None, PyDict(<< <<"screen_name", PyStr(<<"e">>)>> >>)},
               {Absent, PyStr(<<"a">>)},
               {Absent, PyInt(3), Inf(1)},
               {Absent, PyStr(<<"h", "t", "t", "p", "s", ":", "/", "/", "x", ".", "c", "o", "m", "/", "e", "/", "s", "t", "a", "t", "u", "s", "/", "1">>)} >>)

SubTweets ==
    Records(<<"text", "view_count", "favorite_count">>,
            << {Absent, PyStr(<<"a">>), PyStr(<<"b">>)},
               {Absent, PyInt(1), PyStr(<<"1", "2">>)},
               {Absent, PyInt(2)} >>)
    \cup {PyDict(<< <<"text", PyInt(5)>> >>),
          PyDict(<< <<"text", PyStr(<<"a">>)>>, <<"view_count", Inf(1)>> >>),
          PyDict(<< <<"text", PyStr(<<"a">>)>>, <<"media", PyList(<<PhotoDescriptor, VideoDescriptor>>)>> >>),
          None}

ThreadRecords ==
    {PyDict(<< <<"URL_GROUP", PyStr(<<"h", "t", "t", "p", "s", ":", "/", "/", "x", ".", "c", "o", "m", "/", "e">>)>>, <<"content_type", PyStr(thread)>> >>
            \o ordered_tweets) :
        ordered_tweets \in {<<>>, << <<"ordered_tweets", None>> >>}
            \cup {<< <<"ordered_tweets", PyList(tweets)>> >> : tweets \in SeqsUpTo(SubTweets, MaxThread)}}

RawRecords ==
    [instagram |-> InstagramRecords, tiktok |-> TikTokRecords, linkedin |-> LinkedInRecords,
     youtube |-> YouTubeRecords, twitter |-> TweetRecords \cup ThreadRecords]

InitExtract ==
    /\ \E platform \in DOMAIN RawRecords :
          /\ pc = {"dispatch", platform}
          /\ record \in RawRecords[platform]
    /\ extracted = Idle
    /\ IdleCoerce /\ IdleScore /\ IdleClean /\ IdleSelect /\ IdleRouter /\ IdleServer

\* the extractor of platform is called on the record; extract is its outcome
Extract(platform, extract) ==
    /\ pc = {"dispatch", platform}
    /\ extracted' = extract
    /\ pc' = {platform}
    /\ UNCHANGED <<record, coerceVars, scoreVars, cleanVars, selectVars, routerVars, serverVars>>

ExtractInstagram == Extract("instagram", extract_instagram_fields(record))
ExtractTikTok == Extract("tiktok", extract_tiktok_fields(record))
ExtractLinkedIn == Extract("linkedin", extract_linkedin_fields(record))
ExtractTwitter == Extract("twitter", extract_twitter_fields(record))
ExtractYouTube == Extract("youtube", extract_youtube_fields(record))

NextExtract ==
    ExtractInstagram \/ ExtractTikTok \/ ExtractLinkedIn \/ ExtractTwitter \/ ExtractYouTube

SpecExtract == InitExtract /\ [][NextExtract]_vars

(***************************************************************************)
(* Claims about the Field Extractors                                       *)
(***************************************************************************)
Platforms5 == {"instagram", "tiktok", "linkedin", "twitter", "youtube"}

\* an extractor has been called on the record
Extracted == pc # {} /\ pc \subseteq Platforms5

\* the sub-tweets of a thread record
SubTweetsOf(rec) == getd(rec, "ordered_tweets", PyList(<<>>))

IsThreadRecord(rec) == IsDict(rec) /\ get(rec, "content_type") = PyStr(thread)

\* a thread record without sub-tweets
EmptyThread(rec) == IsThreadRecord(rec) /\ SubTweetsOf(rec) = PyList(<<>>)

\* C14: no extractor raises for a record that is a mapping, whatever its
\* optional fields hold; it returns an item (no item for an empty thread).
ExtractorsNeverRaise ==
    Extracted =>
        /\ IsOk(extracted)
        /\ IF EmptyThread(record) THEN extracted[2] = None ELSE IsDict(extracted[2])

\* the text of a sub-tweet: text, else full_text
SubTweetText(tw) == ValOr(getd(tw, "text", PyStr(<<>>)), getd(tw, "full_text", PyStr(<<>>)))

\* the sum over the sub-tweets of the coerced metric of the raw field
RECURSIVE SumMetric(_, _)
SumMetric(tweets, field) ==
    IF tweets = <<>> THEN 0
    ELSE retrieve_safe_int(getd(Head(tweets), field, PyInt(0)))[2] + SumMetric(Tail(tweets), field)

\* the texts of the sub-tweets joined by single spaces
RECURSIVE JoinTexts(_)
JoinTexts(tweets) ==
    IF Len(tweets) = 1 THEN SubTweetText(Head(tweets))[2]
    ELSE SubTweetText(Head(tweets))[2] \o <<" ">> \o JoinTexts(Tail(tweets))

\* the sub-tweets extract_thread does not raise for, among those of the model:
\* mappings with a string (or no) text and no infinite metric
WellFormedSubTweets(tweets) ==
    \A i \in DOMAIN tweets :
        /\ IsDict(tweets[i])
        /\ IsStr(SubTweetText(tweets[i]))
        /\ \A k \in DOMAIN TwitterStatKeys :
               Tag(getd(tweets[i], TwitterStatKeys[k][2], PyInt(0))) # "inf"

\* combined_stats holds the six sums and the tweets are numbered 1..n in order
SumsAndNumbers(thread_item, tweets) ==
    /\ IsDict(thread_item)
    /\ get(thread_item, "combined_stats") =
           PyDict(Elements([k \in DOMAIN TwitterStatKeys |->
               <<TwitterStatKeys[k][1], PyInt(SumMetric(tweets, TwitterStatKeys[k][2]))>>]))
    /\ Len(get(thread_item, "tweets")[2]) = Len(tweets)
    /\ \A i \in DOMAIN tweets :
           /\ get(get(thread_item, "tweets")[2][i], "tweet_number") = PyInt(i)
           /\ getd(get(thread_item, "tweets")[2][i], "text", PyStr(<<>>)) = SubTweetText(tweets[i])

\* a thread record with a list of sub-tweets has been extracted
ThreadExtracted == pc = {"twitter"} /\ IsThreadRecord(record) /\ IsList(SubTweetsOf(record))

IsDigits(cs) == cs # <<>> /\ \A i \in DOMAIN cs : IsAsciiDigit(cs[i])

\* <digits><unit>, or nothing
DurationPart(cs, unit) ==
    cs = <<>> \/ (cs[Len(cs)] = unit /\ IsDigits(SubSeq(cs, 1, Len(cs) - 1)))

\* the number of a part (0 for no part)
PartValue(cs) == IF cs = <<>> THEN 0 ELSE DecimalValue(SubSeq(cs, 1, Len(cs) - 1))

\* cs is PT<m>M<s>S (either part may be missing, not both) with the minutes
\* part ending at position k
DurationForm(cs, k) ==
    /\ Len(cs) > 2 /\ SubSeq(cs, 1, 2) = <<"P", "T">>
    /\ DurationPart(SubSeq(cs, 3, k), "M") /\ DurationPart(SubSeq(cs, k + 1, Len(cs)), "S")

\* the duration parses in the form PT<m>M<s>S to at most 60 seconds
ParsesToAtMost60(duration) ==
    /\ IsStr(duration)
    /\ \E k \in 2..Len(duration[2]) :
          /\ DurationForm(duration[2], k)
          /\ 60 * PartValue(SubSeq(duration[2], 3, k))
                 + PartValue(SubSeq(duration[2], k + 1, Len(duration[2]))) <= 60

\* C19: extract_youtube_fields sets type to short exactly when the duration
\* parses in the form PT<m>M<s>S to at most 60 seconds, and to video otherwise.
ShortIffParsed ==
    (pc = {"youtube"} /\ IsOk(extracted)) =>
        IF ParsesToAtMost60(get(record, "duration"))
        THEN get(extracted[2], "type") = PyStr(short)
        ELSE get(extracted[2], "type") = PyStr(video)

\* the number of entries of a list field of an item (0 when the field is absent)
Entries(it, field) == Len(getd(it, field, PyList(<<>>))[2])

\* C20: media_count is (1 if the item has a video URL, else 0) plus the number
\* of its image_urls in the items of the Instagram, LinkedIn, YouTube and
\* TikTok extractors, and the number of raw media descriptors in a tweet and
\* in every sub-tweet of a thread.
MediaCountMatches ==
    (Extracted /\ IsOk(extracted) /\ IsDict(extracted[2])) =>
        IF pc # {"twitter"}
        THEN get(extracted[2], "media_count") =
                PyInt((IF HasKey(extracted[2][2], "video_url") THEN 1 ELSE 0)
                          + Entries(extracted[2], "image_urls"))
        ELSE IF IsThreadRecord(record)
        THEN \A i \in DOMAIN SubTweetsOf(record)[2] :
                get(get(extracted[2], "tweets")[2][i], "media_count")
                    = PyInt(Entries(SubTweetsOf(record)[2][i], "media"))
        ELSE get(extracted[2], "media_count") = PyInt(Entries(record, "media"))

(***************************************************************************)
(* The Router (retrieve.py, module level) and the selection stage run      *)
(* after it (results.py generate_results), with the files they share       *)
(***************************************************************************)
platform_key == <<"p", "l", "a", "t", "f", "o", "r", "m">>
URL_GROUP_key == <<"U", "R", "L", "_", "G", "R", "O", "U", "P">>

\* k in v, ks being the characters of k: a key of a dict, a substring of a
\* string, an element of a list; other values are not iterable
In(k, ks, v) ==
    CASE Tag(v) = "dict" -> Ok(HasKey(v[2], k))
      [] Tag(v) = "str" -> Ok(Contains(v[2], ks))
      [] Tag(v) = "list" -> Ok(\E i \in DOMAIN v[2] : v[2][i] = PyStr(ks))
      [] OTHER -> Raise("TypeError")

\* v[k] for a string key k
subscript(v, k) ==
    IF IsDict(v) THEN (IF HasKey(v[2], k) THEN Ok(Get(v[2], k, None)) ELSE Raise("KeyError"))
    ELSE Raise("TypeError")

\* 'domain' in url_group (the keys of the model's dicts are field names,
\* none of them a domain)
domain_in(domain, url_group) ==
    CASE Tag(url_group) = "str" -> Ok(Contains(url_group[2], domain))
      [] Tag(url_group) = "list" -> Ok(\E i \in DOMAIN url_group[2] : url_group[2][i] = PyStr(domain))
      [] Tag(url_group) = "dict" -> Ok(FALSE)
      [] OTHER -> Raise("TypeError")

\* retrieve.py 735-744: the platform named by the first domain found in url_group
platform_of_url_group(url_group) ==
    Try(domain_in(instagram_com, url_group), LAMBDA is_instagram :
    IF is_instagram THEN Ok(PyStr(instagram)) ELSE
    Try(domain_in(linkedin_com, url_group), LAMBDA is_linkedin :
    IF is_linkedin THEN Ok(PyStr(linkedin)) ELSE
    Try(domain_in(twitter_com, url_group), LAMBDA is_twitter :
    Try(domain_in(x_com, url_group), LAMBDA is_x :
    IF is_twitter \/ is_x THEN Ok(PyStr(twitter)) ELSE
    Try(domain_in(youtube_com, url_group), LAMBDA is_youtube :
    IF is_youtube THEN Ok(PyStr(youtube)) ELSE
    Try(domain_in(tiktok_com, url_group), LAMBDA is_tiktok :
    IF is_tiktok THEN Ok(PyStr(tiktok)) ELSE Ok(None)))))))

\* the platform taken from URL_GROUP before the platform field
route_url_group_first(rec) ==
    Try(In("URL_GROUP", URL_GROUP_key, rec), LAMBDA has_url_group :
    IF has_url_group
    THEN Try(subscript(rec, "URL_GROUP"), LAMBDA url_group : platform_of_url_group(url_group))
    ELSE Try(In("platform", platform_key, rec), LAMBDA has_platform :
         IF has_platform THEN subscript(rec, "platform") ELSE Ok(None)))

\* retrieve.py 728-744: platform, None when nothing determines it
route(rec) ==
    Try(In("platform", platform_key, rec), LAMBDA has_platform :
    IF has_platform THEN subscript(rec, "platform")
    ELSE Try(In("URL_GROUP", URL_GROUP_key, rec), LAMBDA has_url_group :
         IF has_url_group
         THEN Try(subscript(rec, "URL_GROUP"), LAMBDA url_group : platform_of_url_group(url_group))
         ELSE Ok(None)))

\* what one pass of the loop body does: the items it appends to
\* combined_data, the warnings it prints, the exception it raises ("none":
\* it completes)
Pass(appended, warned, raised) == [appended |-> appended, warned |-> warned, raised |-> raised]

\* combined_data.append(extracted) followed by the print of the fields keys
appended_and_printed(extract, keys) ==
    IF \E k \in keys : ~HasKey(extract[2], k) THEN Pass(<<extract>>, 0, "KeyError")
    ELSE Pass(<<extract>>, 0, "none")

\* the extractor's outcome appended and printed
dispatch(outcome) ==
    IF IsOk(outcome) THEN appended_and_printed(outcome[2], {"platform", "type"})
    ELSE Pass(<<>>, 0, outcome[2])

\* retrieve.py 726-791: the loop body on one buffered record
route_record(rec) ==
    With(route(rec), LAMBDA platform :
    IF ~IsOk(platform) THEN Pass(<<>>, 0, platform[2])
    ELSE IF platform[2] = PyStr(instagram)
         THEN (IF get(rec, "type") = PyStr(Video)
               THEN dispatch(extract_instagram_fields(rec))
               ELSE Pass(<<>>, 0, "none"))
    ELSE IF platform[2] = PyStr(tiktok) THEN dispatch(extract_tiktok_fields(rec))
    ELSE IF platform[2] = PyStr(linkedin) THEN dispatch(extract_linkedin_fields(rec))
    ELSE IF platform[2] = PyStr(twitter)
         THEN With(extract_twitter_fields(rec), LAMBDA outcome :
              IF ~IsOk(outcome) THEN Pass(<<>>, 0, outcome[2])
              ELSE IF ~Truthy(outcome[2]) THEN Pass(<<>>, 0, "none")
              ELSE appended_and_printed(outcome[2], {"content_type", "platform", "type"}))
    ELSE IF platform[2] = PyStr(youtube) THEN dispatch(extract_youtube_fields(rec))
    ELSE Pass(<<>>, 1, "none"))

\* retrieve.py load_temp_data: the records in the buffer file
load_temp_data(file) == file

\* the buffer left as it is
keep_source_files(file) == file

\* retrieve.py clear_source_files: json.dump([], f)
clear_source_files(file) == <<>>

\* list.append(x) for each x of items
append(list, items) == list \o items

(***************************************************************************)
(* The buffers the Router is run on: what the scrapers appended to         *)
(* temp_data.json, in arrival order.  Beside well-formed records of the    *)
(* five platforms the buffer may hold records of another site, records     *)
(* without identity fields and values that are not mappings.               *)
(***************************************************************************)
MaxRecords == 3     \* most records in temp_data.json
MaxRuns == 2        \* most runs of retrieve.py

ExplicitTikTok ==
    PyDict(<< <<"platform", PyStr(tiktok)>>, <<"URL_GROUP", PyStr(<<"h", "t", "t", "p", "s", ":", "/", "/", "x", ".", "c", "o", "m", "/", "e">>)>>,
              <<"text", PyStr(<<"a">>)>>, <<"playCount", PyInt(5)>> >>)
InstagramReel ==
    PyDict(<< <<"URL_GROUP", PyStr(<<"h", "t", "t", "p", "s", ":", "/", "/", "i", "n", "s", "t", "a", "g", "r", "a", "m", ".", "c", "o", "m", "/", "u">>)>>, <<"type", PyStr(Video)>>,
              <<"videoUrl", PyStr(<<"v">>)>>, <<"videoViewCount", PyInt(2)>> >>)
InstagramImage ==
    PyDict(<< <<"URL_GROUP", PyStr(<<"h", "t", "t", "p", "s", ":", "/", "/", "i", "n", "s", "t", "a", "g", "r", "a", "m", ".", "c", "o", "m", "/", "u">>)>>, <<"type", PyStr(<<"I", "m", "a", "g", "e">>)>>,
              <<"imageUrl", PyStr(<<"i">>)>> >>)
Tweet ==
    PyDict(<< <<"URL_GROUP", PyStr(<<"h", "t", "t", "p", "s", ":", "/", "/", "x", ".", "c", "o", "m", "/", "e">>)>>, <<"text", PyStr(<<"a">>)>>,
              <<"view_count", PyInt(3)>> >>)
EmptyThreadRecord ==
    PyDict(<< <<"URL_GROUP", PyStr(<<"h", "t", "t", "p", "s", ":", "/", "/", "t", "w", "i", "t", "t", "e", "r", ".", "c", "o", "m", "/", "e">>)>>, <<"content_type", PyStr(thread)>>,
              <<"ordered_tweets", PyList(<<>>)>> >>)
LinkedInPost ==
    PyDict(<< <<"URL_GROUP", PyStr(<<"h", "t", "t", "p", "s", ":", "/", "/", "l", "i", "n", "k", "e", "d", "i", "n", ".", "c", "o", "m", "/", "u">>)>>, <<"text", PyStr(<<"#", "a", " ", "b">>)>> >>)
YouTubeVideo ==
    PyDict(<< <<"URL_GROUP", PyStr(<<"h", "t", "t", "p", "s", ":", "/", "/", "y", "o", "u", "t", "u", "b", "e", ".", "c", "o", "m", "/", "u">>)>>, <<"url", PyStr(<<"v">>)>>,
              <<"duration", PyStr(<<"P", "T", "1", "M", "1", "S">>)>>, <<"viewCount", PyInt(3)>> >>)
TikTokNullAuthor ==
    PyDict(<< <<"URL_GROUP", PyStr(<<"h", "t", "t", "p", "s", ":", "/", "/", "t", "i", "k", "t", "o", "k", ".", "c", "o", "m", "/", "u">>)>>, <<"authorMeta", None>> >>)
OtherSite ==
    PyDict(<< <<"URL_GROUP", PyStr(<<"h", "t", "t", "p", "s", ":", "/", "/", "f", "a", "c", "e", "b", "o", "o", "k", ".", "c", "o", "m", "/", "u">>)>>, <<"text", PyStr(<<"a">>)>> >>)
NoIdentity == PyDict(<< <<"text", PyStr(<<"a">>)>> >>)

BufferRecords ==
    {ExplicitTikTok, InstagramReel, InstagramImage, Tweet, EmptyThreadRecord,
     LinkedInPost, YouTubeVideo, TikTokNullAuthor, OtherSite, NoIdentity, PyInt(5)}

\* data.json as an earlier run left it
StaleCollection == <<ContentItem(1, 1, 2)>>

\* the content of a file that no write has completed
Unwritten == <<Absent>>

InitRouter ==
    /\ pc = {}
    /\ temp_data \in SeqsUpTo(BufferRecords, MaxRecords)
    /\ \E old \in {<<>>, StaleCollection} :
          /\ data = old
          /\ result_json = generate_results(old, <<>>)
    /\ target = 0 /\ selected = Idle
    /\ all_temp_data = <<>> /\ cursor = 0 /\ combined_data = <<>> /\ router = "idle"
    /\ warnings = 0 /\ torn = {} /\ runs = 0
    /\ IdleCoerce /\ IdleScore /\ IdleClean /\ IdleExtract /\ IdleServer

\* retrieve.py 721-724: a run starts: all_temp_data = load_temp_data(), combined_data = []
LoadTempData ==
    /\ router \in {"idle", "done"}
    /\ pc # {"results-open"}
    /\ runs < MaxRuns
    /\ runs' = runs + 1
    /\ all_temp_data' = load_temp_data(temp_data)
    /\ combined_data' = <<>>
    /\ cursor' = 1
    /\ router' = "loop"
    /\ pc' = {}
    /\ UNCHANGED <<temp_data, warnings, torn, coerceVars, scoreVars, cleanVars, selectVars, extractVars, serverVars>>

\* retrieve.py 726-791: one pass of "for item in all_temp_data"; an exception
\* ends the run
RouteRecord ==
    /\ router = "loop"
    /\ cursor <= Len(all_temp_data)
    /\ \E pass \in {route_record(all_temp_data[cursor])} :
          /\ combined_data' = append(combined_data, pass.appended)
          /\ warnings' = warnings + pass.warned
          /\ IF pass.raised = "none"
             THEN cursor' = cursor + 1 /\ router' = "loop"
             ELSE cursor' = cursor /\ router' = "aborted"
    /\ UNCHANGED <<pc, temp_data, all_temp_data, torn, runs, coerceVars, scoreVars, cleanVars, selectVars, extractVars, serverVars>>

\* retrieve.py 798: open(output_file, "w") truncates data.json
OpenData ==
    /\ router = "loop"
    /\ cursor > Len(all_temp_data)
    /\ data' = <<>>
    /\ torn' = torn \cup {"data.json"}
    /\ router' = "dump"
    /\ UNCHANGED <<pc, target, selected, result_json, temp_data, all_temp_data, cursor, combined_data, warnings, runs, coerceVars, scoreVars, cleanVars, extractVars, serverVars>>

\* retrieve.py 799: json.dump(combined_data, f) runs to its end and the file is closed
DumpData ==
    /\ router = "dump"
    /\ data' = combined_data
    /\ torn' = torn \ {"data.json"}
    /\ router' = "clear"
    /\ UNCHANGED <<pc, target, selected, result_json, temp_data, all_temp_data, cursor, combined_data, warnings, runs, coerceVars, scoreVars, cleanVars, extractVars, serverVars>>

\* retrieve.py 799: the write fails after the first k items; the exception ends the run
FailDumpData ==
    /\ router = "dump"
    /\ \E k \in 0..Max(Len(combined_data) - 1, 0) : data' = SubSeq(combined_data, 1, k)
    /\ router' = "aborted"
    /\ UNCHANGED <<pc, target, selected, result_json, temp_data, all_temp_data, cursor, combined_data, warnings, torn, runs, coerceVars, scoreVars, cleanVars, extractVars, serverVars>>

\* retrieve.py 802-813: clear_source_files()
ClearSourceFiles ==
    /\ router = "clear"
    /\ temp_data' = clear_source_files(temp_data)
    /\ router' = "done"
    /\ UNCHANGED <<pc, all_temp_data, cursor, combined_data, warnings, torn, runs, coerceVars, scoreVars, cleanVars, selectVars, extractVars, serverVars>>

\* results.py 181-215: generate_results() after the Router's run returns
\* before it opens result.json: no data, no selection, or an exception
ReturnResults ==
    /\ router = "done"
    /\ pc = {}
    /\ generate_results(data, Unwritten) = Unwritten
    /\ pc' = {"results"}
    /\ UNCHANGED <<coerceVars, scoreVars, cleanVars, selectVars, extractVars, routerVars, serverVars>>

\* results.py 220: open(results_file, "w") truncates result.json
OpenResults ==
    /\ router = "done"
    /\ pc = {}
    /\ generate_results(data, Unwritten) # Unwritten
    /\ result_json' = <<>>
    /\ torn' = torn \cup {"result.json"}
    /\ pc' = {"results-open"}
    /\ UNCHANGED <<data, target, selected, temp_data, all_temp_data, cursor, combined_data, router, warnings, runs, coerceVars, scoreVars, cleanVars, extractVars, serverVars>>

\* results.py 221: json.dump(selected_content, f) runs to its end and the file is closed
DumpResults ==
    /\ pc = {"results-open"}
    /\ result_json' = generate_results(data, result_json)
    /\ torn' = torn \ {"result.json"}
    /\ pc' = {"results"}
    /\ UNCHANGED <<data, target, selected, temp_data, all_temp_data, cursor, combined_data, router, warnings, runs, coerceVars, scoreVars, cleanVars, extractVars, serverVars>>

\* results.py 221: the write fails after the first k items
FailDumpResults ==
    /\ pc = {"results-open"}
    /\ \E k \in 0..(Len(generate_results(data, result_json)) - 1) :
          result_json' = SubSeq(generate_results(data, result_json), 1, k)
    /\ pc' = {"results-failed"}
    /\ UNCHANGED <<data, target, selected, temp_data, all_temp_data, cursor, combined_data, router, warnings, torn, runs, coerceVars, scoreVars, cleanVars, extractVars, serverVars>>

NextRouter ==
    \/ LoadTempData
    \/ RouteRecord
    \/ OpenData
    \/ DumpData
    \/ FailDumpData
    \/ ClearSourceFiles
    \/ ReturnResults
    \/ OpenResults
    \/ DumpResults
    \/ FailDumpResults

SpecRouter == InitRouter /\ [][NextRouter]_vars

(***************************************************************************)
(* Claims about the Router                                                 *)
(***************************************************************************)
\* the loop is at a record of the buffer
AtRecord == router = "loop" /\ cursor <= Len(all_temp_data)
Current == all_temp_data[cursor]

PlatformNames == {PyStr(instagram), PyStr(tiktok), PyStr(linkedin), PyStr(twitter), PyStr(youtube)}

Domains ==
    << <<instagram_com, instagram>>, <<linkedin_com, linkedin>>, <<twitter_com, twitter>>,
       <<x_com, twitter>>, <<youtube_com, youtube>>, <<tiktok_com, tiktok>> >>

\* a mapping whose URL_GROUP, if it has one, is a string
Identified(r) == IsDict(r) /\ (HasKey(r[2], "URL_GROUP") => IsStr(get(r, "URL_GROUP")))

\* the platform a mapping declares: its platform field if it has one,
\* otherwise the platform of the first domain found in its URL_GROUP
Declared(r) ==
    IF HasKey(r[2], "platform") THEN get(r, "platform")
    ELSE IF /\ HasKey(r[2], "URL_GROUP")
            /\ \E d \in DOMAIN Domains : Contains(get(r, "URL_GROUP")[2], Domains[d][1])
         THEN PyStr(Domains[CHOOSE d \in DOMAIN Domains :
                        /\ Contains(get(r, "URL_GROUP")[2], Domains[d][1])
                        /\ \A e \in 1..(d - 1) : ~Contains(get(r, "URL_GROUP")[2], Domains[e][1])][2])
         ELSE None

ExtractorOutcome(r) ==
    CASE Declared(r) = PyStr(instagram) -> extract_instagram_fields(r)
      [] Declared(r) = PyStr(tiktok) -> extract_tiktok_fields(r)
      [] Declared(r) = PyStr(linkedin) -> extract_linkedin_fields(r)
      [] Declared(r) = PyStr(twitter) -> extract_twitter_fields(r)
      [] Declared(r) = PyStr(youtube) -> extract_youtube_fields(r)

\* the pass appends the item the extractor returned, if it returned one
AppendsOutcome(r) ==
    IsOk(ExtractorOutcome(r)) =>
        combined_data' = IF ExtractorOutcome(r)[2] = None THEN combined_data
                         ELSE Append(combined_data, ExtractorOutcome(r)[2])

\* data.json is written from combined_data as it stands
WritesCombined == router = "dump" /\ router' = "clear" => data' = combined_data

\* C12: for every record that declares one of the five platforms
\* the pass appends the extractor's item, unless the extractor returned none,
\* at the end of the collection, which is what data.json is written from.
AppendsEveryDetermined ==
    [][/\ AtRecord /\ Identified(Current) /\ Declared(Current) \in PlatformNames
           => AppendsOutcome(Current)
       /\ WritesCombined]_vars

MalformedRecordSkipped ==
    [][AtRecord /\ (~IsDict(Current)
                    \/ (~HasKey(Current[2], "platform") /\ ~HasKey(Current[2], "URL_GROUP")))
          => combined_data' = combined_data /\ cursor' = cursor + 1 /\ router' = "loop"]_vars

\* C16: at every point data.json and result.json each hold a complete
\* content: no file is left opened for writing with its content incomplete.
WritesAreAtomic == torn = {}

\* C17: after the Router and the selection stage have run on an empty
\* buffer, data.json is empty and result.json is empty.
EmptyBufferEmptyOutputs ==
    all_temp_data = <<>> /\ router = "done" /\ pc = {"results"}
        => data = <<>> /\ result_json = <<>>

(***************************************************************************)
(* Claims about the hashtags the extractors return                         *)
(***************************************************************************)
\* no string of the list v (if v is a list) begins with '#'
NoHashPrefix(v) ==
    IsList(v) =>
        \A i \in DOMAIN v[2] : IsStr(v[2][i]) => ~startswith(v[2][i][2], <<"#">>)

\* C21: in the item an extractor returns, from whichever source shape the
\* hashtags came, no hashtag begins with '#'.
HashtagsWithoutHash ==
    Extracted /\ IsOk(extracted) /\ IsDict(extracted[2]) =>
        NoHashPrefix(get(extracted[2], "hashtags"))

(***************************************************************************)
(* Further claims about the Fair Selector                                  *)
(***************************************************************************)
\* returned is the input original with engagement_score added as its last field
ScoredCopyOf(returned, original) ==
    /\ ~HasKey(original[2], "engagement_score")
    /\ HasKey(returned[2], "engagement_score")
    /\ returned[2] = Append(original[2], <<"engagement_score", get(returned, "engagement_score")>>)

\* C22: a call of select_top_content leaves the caller's collection and its
\* items as they were, and every returned item is an input item with the one
\* field engagement_score added: no other field is added, removed or changed,
\* and no source_url_group is left.
SelectionAddsOnlyScore ==
    [][pc = {} /\ pc' = {"selected"} /\ IsOk(selected') =>
          /\ data' = data
          /\ \A i \in DOMAIN selected'[2][2] :
                /\ \E j \in DOMAIN data : ScoredCopyOf(selected'[2][2][i], data[j])
                /\ ~HasKey(selected'[2][2][i][2], "source_url_group")]_vars

\* a selection of five items from three groups, base share 1, so that two of
\* the returned items went through the remainder pool
SelectionAddsOnlyScoreWitness ==
    /\ pc = {"selected"} /\ IsOk(selected) /\ target = 5
    /\ Cardinality(UrlGroups(data)) = 3
    /\ Len(Returned) = 5
    /\ \A i \in DOMAIN Returned : \E j \in DOMAIN data : ScoredCopyOf(Returned[i], data[j])

\* C23: whenever actual_target is at least the number G of URL groups, every
\* URL group that holds an item has at least one item in the selection: a
\* group with content is left with none only when G exceeds actual_target.
NoGroupLeftOut ==
    (pc = {"selected"} /\ IsOk(selected) /\ UrlGroups(data) # {}) =>
        \A g \in UrlGroups(data) :
            CountOf(Returned, g) = 0 => Cardinality(UrlGroups(data)) > ActualTarget

\* with 9 asked of five items in three groups the target is snapped to 3 and
\* every group, the one holding three items too, has one item selected
NoGroupLeftOutWitness ==
    /\ pc = {"selected"} /\ IsOk(selected)
    /\ Cardinality(UrlGroups(data)) = 3
    /\ target = DefaultTarget /\ Len(data) = 5 /\ ActualTarget = 3
    /\ \A g \in UrlGroups(data) : CountOf(Returned, g) = 1
    /\ \E g \in UrlGroups(data) : CountOf(data, g) = 3

\* every URL group holds at least the base share of items
EveryGroupHoldsBase ==
    /\ UrlGroups(data) # {}
    /\ \A g \in UrlGroups(data) : CountOf(data, g) >= BaseShare

\* C24 as stated: if every URL group holds at least actual_target // G
\* items, the call returns exactly actual_target items.
ExactTargetAnyTarget ==
    (pc = {"selected"} /\ EveryGroupHoldsBase) =>
        IsOk(selected) /\ Len(Returned) = ActualTarget

\* C24: for a target T >= 0, if every URL group holds at least
\* actual_target // G items, the call returns exactly actual_target items.
ExactTarget ==
    (pc = {"selected"} /\ target >= 0 /\ EveryGroupHoldsBase) =>
        IsOk(selected) /\ Len(Returned) = ActualTarget

\* five items asked of three groups that each hold at least the base share 1:
\* the two extra items come from the remainder pool
ExactTargetWitness ==
    /\ pc = {"selected"} /\ target = 5 /\ EveryGroupHoldsBase
    /\ Cardinality(UrlGroups(data)) = 3 /\ BaseShare = 1
    /\ IsOk(selected) /\ Len(Returned) = 5

\* the positions of the input collection that hold the item returned came from
Positions(returned) ==
    {j \in DOMAIN data : Del(returned[2], "engagement_score") = data[j][2]}

\* C25: for a target T >= 0 no input item is returned twice: the returned
\* items are scored copies of items at pairwise distinct positions of the
\* input collection.
NoItemTwice ==
    (pc = {"selected"} /\ target >= 0) =>
        /\ IsOk(selected)
        /\ \A i \in DOMAIN Returned :
              /\ Positions(Returned[i]) # {}
              /\ Cardinality({k \in DOMAIN Returned : Positions(Returned[k]) = Positions(Returned[i])})
                     <= Cardinality(Positions(Returned[i]))

\* a group of three items gave its best item as base pick and another item
\* through the remainder pool
NoItemTwiceWitness ==
    /\ pc = {"selected"} /\ target = 5 /\ IsOk(selected)
    /\ Cardinality(UrlGroups(data)) = 3 /\ BaseShare = 1
    /\ \E g \in UrlGroups(data) : CountOf(data, g) = 3 /\ CountOf(Returned, g) >= 2

(***************************************************************************)
(* main.py: detect_platform, and the Router's reading of the URL_GROUP the *)
(* scrapers stamp (scrapers/youtube.py 19-40: URL_GROUP is the URL the     *)
(* orchestration wrote into the scraper, as it was submitted)              *)
(***************************************************************************)
youtu_be == <<"y", "o", "u", "t", "u", ".", "b", "e">>

\* main.py 108-123
detect_platform(u) ==
    LET url_lower == lower(u) IN
    IF Contains(url_lower, instagram_com) THEN instagram
    ELSE IF Contains(url_lower, linkedin_com) THEN linkedin
    ELSE IF Contains(url_lower, twitter_com) \/ Contains(url_lower, x_com) THEN twitter
    ELSE IF Contains(url_lower, youtube_com) \/ Contains(url_lower, youtu_be) THEN youtube
    ELSE IF Contains(url_lower, tiktok_com) THEN tiktok
    ELSE unknown

\* scrapers/youtube.py 37-40 (and the same lines of the other scrapers): a
\* scraped record, stamped with the URL; it has no platform field
stamped(u) == PyDict(<< <<"URL_GROUP", PyStr(u)>> >>)

MaxUrlParts == 2    \* a URL is made of up to MaxUrlParts parts

\* the parts of the model's URLs: the domains in the spelling the code
\* looks for, in another case, the short YouTube domain, and other text
UrlParts ==
    {instagram_com, <<"I", "n", "s", "t", "a", "g", "r", "a", "m", ".", "c", "o", "m">>, linkedin_com, <<"L", "i", "n", "k", "e", "d", "I", "n", ".", "c", "o", "m">>, twitter_com, x_com,
     youtube_com, <<"Y", "o", "u", "T", "u", "b", "e", ".", "c", "o", "m">>, youtu_be, tiktok_com, <<"T", "i", "k", "T", "o", "k", ".", "c", "o", "m">>, <<"/">>, <<"a">>}

RECURSIVE Concat(_)
Concat(parts) == IF parts = <<>> THEN <<>> ELSE Head(parts) \o Concat(Tail(parts))

Urls == {Concat(parts) : parts \in SeqsUpTo(UrlParts, MaxUrlParts)}

InitDetect ==
    /\ pc = {}
    /\ submitted_url \in Urls /\ detected = Idle /\ routed = Idle
    /\ processing_tasks = <<>> /\ pipeline = <<>> /\ response = NoResponse
    /\ IdleCoerce /\ IdleScore /\ IdleClean /\ IdleSelect /\ IdleExtract /\ IdleRouter

\* main.py 445: platform = detect_platform(url)
DetectPlatform ==
    /\ "detected" \notin pc
    /\ pc' = pc \cup {"detected"}
    /\ detected' = PyStr(detect_platform(submitted_url))
    /\ UNCHANGED <<submitted_url, routed, processing_tasks, pipeline, response>>
    /\ UNCHANGED <<coerceVars, scoreVars, cleanVars, selectVars, extractVars, routerVars>>

\* retrieve.py 728-744, on a record stamped with url by a scraper
RouteStamped ==
    /\ "routed" \notin pc
    /\ pc' = pc \cup {"routed"}
    /\ routed' = route(stamped(submitted_url))
    /\ UNCHANGED <<submitted_url, detected, processing_tasks, pipeline, response>>
    /\ UNCHANGED <<coerceVars, scoreVars, cleanVars, selectVars, extractVars, routerVars>>

NextDetect == DetectPlatform \/ RouteStamped

SpecDetect == InitDetect /\ [][NextDetect]_vars

\* C30: whenever detect_platform classifies a URL as a platform, the Router
\* finds the same platform for a record that carries the URL as URL_GROUP
\* and has no platform field.
DetectionAgreesWithRouter ==
    (pc = {"detected", "routed"} /\ detected # PyStr(unknown)) => routed = Ok(detected)

(***************************************************************************)
(* main.py: the orchestration.  process_content accepts a request and      *)
(* queues process_pipeline as a background task; process_pipeline runs the *)
(* scrapers, retrieve.py and results.py as child processes, one after the  *)
(* other, on temp_data.json, data.json and result.json, which all tasks    *)
(* share.  Handlers and background tasks are coroutines of one event loop. *)
(***************************************************************************)
MaxTasks == 2       \* most tasks submitted to the server process

ScraperTimeout == 300    \* main.py 203: run_scraper, seconds
RetrieveTimeout == 120   \* main.py 231: run_retrieve_process, seconds
ResultsTimeout == 60     \* main.py 259: run_results_process, seconds

\* subprocess.run(...) without a timeout: the child may also never end
subprocess_run_unbounded(seconds) == {"returned", "failed", "timeout", "hang"}

\* subprocess.run(..., timeout=seconds): the child runs to its end, ends with
\* a return code other than 0 for a reason of its environment, or is killed
\* when the timeout expires
subprocess_run(seconds) == {"returned", "failed", "timeout"}

\* a coroutine that awaits its child processes
awaits_child(at) == at \in {"scrape", "retrieve", "results"}

\* main.py 408-527: process_pipeline has no await expression; it gives up the
\* event loop at no step
awaits(at) == FALSE

\* the event loop is free for a handler or for task t (0: a handler): no
\* other pipeline holds it
LoopFree(t) ==
    \A u \in DOMAIN pipeline :
        u # t => (pipeline[u].at \in {"queued", "done"} \/ awaits(pipeline[u].at))

\* the URLs of the model's requests
instagram_profile == <<"h", "t", "t", "p", "s", ":", "/", "/", "i", "n", "s", "t", "a", "g", "r", "a", "m", ".", "c", "o", "m", "/", "u">>
x_profile == <<"h", "t", "t", "p", "s", ":", "/", "/", "x", ".", "c", "o", "m", "/", "e">>
short_youtube == <<"h", "t", "t", "p", "s", ":", "/", "/", "y", "o", "u", "t", "u", ".", "b", "e", "/", "u">>
tiktok_profile == <<"h", "t", "t", "p", "s", ":", "/", "/", "t", "i", "k", "t", "o", "k", ".", "c", "o", "m", "/", "@", "u">>
other_site == <<"h", "t", "t", "p", "s", ":", "/", "/", "f", "a", "c", "e", "b", "o", "o", "k", ".", "c", "o", "m", "/", "u">>

\* ContentRequest.urls of the model's requests
Requests ==
    {<<instagram_profile, x_profile>>, <<other_site, tiktok_profile, short_youtube>>}

\* the scripts in scrapers/
ScraperFiles == {instagram, linkedin, twitter, youtube}

\* what the platform's actor may return for a URL, before the scraper stamps it
Scraped(platform) ==
    CASE platform = instagram -> {<<>>, <<InstagramReel>>, <<InstagramImage>>}
      [] platform = twitter -> {<<Tweet>>}
      [] platform = youtube -> {<<YouTubeVideo>>}
      [] platform = linkedin -> {<<LinkedInPost>>}
      [] OTHER -> {<<>>}

\* item['URL_GROUP'] = URL_GROUP for every scraped record
stamp_all(records, u) ==
    Elements([i \in DOMAIN records |-> PyDict(Put(records[i][2], "URL_GROUP", PyStr(u)))])

\* main.py 315-333: url_analysis
analyse(urls) ==
    Elements([i \in DOMAIN urls |-> [url |-> urls[i], platform |-> detect_platform(urls[i])]])

\* datetime.now().isoformat()
isoformat_now == PyStr(<<"n", "o", "w">>)

\* main.py 336-345: the task dictionary of a new task
new_task(url_analysis) ==
    [status |-> "processing", urls_processed |-> url_analysis,
     result_data |-> None, error |-> None, completed_at |-> None]

\* the exception handler without the completion time
failed_without_time(task, e) ==
    [task EXCEPT !.status = "error", !.error = PyStr(e)]

\* main.py 517-523: the exception handler of process_pipeline
failed(task, e) ==
    [task EXCEPT !.status = "error", !.error = PyStr(e), !.completed_at = isoformat_now]

\* main.py 503-509
completed(task, result_data) ==
    [task EXCEPT !.status = "completed", !.completed_at = isoformat_now,
                 !.result_data = PyList(result_data)]

\* main.py 277-289: load_result_json, None when result.json is missing or
\* cannot be parsed
load_result_json(file, unparsable) ==
    IF file = Unwritten \/ unparsable THEN None ELSE PyList(file)

\* retrieve.py 726-799: the run of the Router on the buffer: what it has
\* collected when it ends, and the exception that ends it ("none": it reaches
\* the write)
RECURSIVE route_all(_, _)
route_all(records, combined) ==
    IF records = <<>> THEN [combined |-> combined, raised |-> "none"]
    ELSE With(route_record(Head(records)), LAMBDA pass :
         IF pass.raised # "none"
         THEN [combined |-> append(combined, pass.appended), raised |-> pass.raised]
         ELSE route_all(Tail(records), append(combined, pass.appended)))

\* results.py 181-221: generate_results raises, and results.py ends with a
\* return code other than 0
results_raises(dat) ==
    /\ dat # <<>>
    /\ With(select_top_content(dat, DefaultTarget), LAMBDA selected_content :
            \/ ~IsOk(selected_content)
            \/ \E i \in DOMAIN selected_content[2][2] :
                  ~HasKey(selected_content[2][2][i][2], "platform"))

\* the buffers the scrapers of one request can leave: for each URL in turn,
\* nothing or the stamped records of its platform
RECURSIVE BuffersOf(_)
BuffersOf(urls) ==
    IF urls = <<>> THEN {<<>>}
    ELSE {stamp_all(records, Head(urls)) \o rest :
             records \in Scraped(detect_platform(Head(urls))) \cup {<<>>},
             rest \in BuffersOf(Tail(urls))}

Buffers == UNION {BuffersOf(urls) : urls \in Requests}

\* retrieve.py on each of these buffers
retrieve_run == [buffer \in Buffers |-> route_all(load_temp_data(buffer), <<>>)]

\* results.py on each collection retrieve.py can write: whether it raises,
\* and what it writes to result.json (Unwritten: it does not open the file)
results_run ==
    [dat \in {retrieve_run[buffer].combined : buffer \in Buffers} |->
        [raises |-> results_raises(dat), written |-> generate_results(dat, Unwritten)]]

\* the position of process_pipeline in a new task
Queued == [at |-> "queued", next |-> 1, successful_scrapers |-> <<>>, failed_scrapers |-> <<>>]

InitServer ==
    /\ pc = {}
    /\ processing_tasks = <<>> /\ pipeline = <<>> /\ response = NoResponse
    /\ submitted_url = Idle /\ detected = Idle /\ routed = Idle
    /\ temp_data = <<>> /\ data = <<>> /\ result_json = Unwritten
    /\ target = 0 /\ selected = Idle
    /\ all_temp_data = <<>> /\ cursor = 0 /\ combined_data = <<>> /\ router = "idle"
    /\ warnings = 0 /\ torn = {} /\ runs = 0
    /\ IdleCoerce /\ IdleScore /\ IdleClean /\ IdleExtract

serverFixed == <<pc, coerceVars, scoreVars, cleanVars, extractVars, target, selected,
                 all_temp_data, cursor, combined_data, router, warnings, runs,
                 submitted_url, detected, routed>>

\* main.py 307-367: POST /process-content
ProcessContent(urls) ==
    /\ Len(processing_tasks) < MaxTasks
    /\ LoopFree(0)
    /\ processing_tasks' = Append(processing_tasks, new_task(analyse(urls)))
    /\ pipeline' = Append(pipeline, Queued)
    /\ UNCHANGED <<response, temp_data, data, result_json, torn, serverFixed>>

\* main.py 369-396: GET /results/{task_id}, for a task_id that process_content
\* returned (processing_tasks holds it)
GetResults(t) ==
    /\ t \in DOMAIN processing_tasks
    /\ LoopFree(0)
    /\ response' = [task_id |-> t, status |-> processing_tasks[t].status,
                    completed_at |-> processing_tasks[t].completed_at,
                    result_data |-> processing_tasks[t].result_data,
                    error |-> processing_tasks[t].error]
    /\ UNCHANGED <<processing_tasks, pipeline, temp_data, data, result_json, torn, serverFixed>>

\* main.py 408-437: process_pipeline starts and resets temp_data.json
StartPipeline(t) ==
    /\ t \in DOMAIN pipeline
    /\ pipeline[t].at = "queued"
    /\ LoopFree(t)
    /\ temp_data' = <<>>
    /\ torn' = torn \ {"temp_data.json"}
    /\ pipeline' = [pipeline EXCEPT ![t].at = "scrape"]
    /\ UNCHANGED <<processing_tasks, response, data, result_json, serverFixed>>

\* main.py 443-471: one pass of "for analysis in url_analysis".  A scraper
\* that returns has appended its stamped records to the buffer (a buffer it
\* cannot parse counts as empty, scrapers/youtube.py 45-59); one that is
\* killed at the timeout has appended nothing, or has truncated the buffer
\* and not finished writing it.
ScrapeUrl(t) ==
    /\ t \in DOMAIN pipeline
    /\ pipeline[t].at = "scrape"
    /\ pipeline[t].next <= Len(processing_tasks[t].urls_processed)
    /\ LoopFree(t)
    /\ LET analysis == processing_tasks[t].urls_processed[pipeline[t].next]
           passed == [pipeline[t] EXCEPT !.next = @ + 1]
           succeeded == [passed EXCEPT !.successful_scrapers = Append(@, analysis.url)]
           failing == [passed EXCEPT !.failed_scrapers = Append(@, analysis.url)]
       IN  IF analysis.platform = unknown
           THEN pipeline' = [pipeline EXCEPT ![t] = passed] /\ UNCHANGED <<temp_data, torn>>
           ELSE IF analysis.platform \notin ScraperFiles
           THEN pipeline' = [pipeline EXCEPT ![t] = failing] /\ UNCHANGED <<temp_data, torn>>
           ELSE \E outcome \in subprocess_run(ScraperTimeout) :
                  CASE outcome = "returned" ->
                         \E records \in Scraped(analysis.platform) :
                            /\ temp_data' = temp_data \o stamp_all(records, analysis.url)
                            /\ torn' = torn \ {"temp_data.json"}
                            /\ pipeline' = [pipeline EXCEPT ![t] = succeeded]
                    [] outcome = "failed" ->
                         /\ pipeline' = [pipeline EXCEPT ![t] = failing]
                         /\ UNCHANGED <<temp_data, torn>>
                    [] outcome = "timeout" ->
                         /\ pipeline' = [pipeline EXCEPT ![t] = failing]
                         /\ \E killed_writing \in BOOLEAN :
                               IF killed_writing
                               THEN temp_data' = <<>> /\ torn' = torn \cup {"temp_data.json"}
                               ELSE UNCHANGED <<temp_data, torn>>
                    [] OTHER ->
                         /\ pipeline' = [pipeline EXCEPT ![t].at = "hung"]
                         /\ UNCHANGED <<temp_data, torn>>
    /\ UNCHANGED <<processing_tasks, response, data, result_json, serverFixed>>

\* main.py 473-478: the buffer is read; the pipeline goes on if it holds a record
CheckBuffer(t) ==
    /\ t \in DOMAIN pipeline
    /\ pipeline[t].at = "scrape"
    /\ pipeline[t].next > Len(processing_tasks[t].urls_processed)
    /\ LoopFree(t)
    /\ IF "temp_data.json" \in torn
       THEN /\ processing_tasks' = [processing_tasks EXCEPT ![t] = failed(@, "JSONDecodeError")]
            /\ pipeline' = [pipeline EXCEPT ![t].at = "done"]
       ELSE IF temp_data = <<>>
       THEN /\ processing_tasks' = [processing_tasks EXCEPT ![t] = failed(@, "No data was scraped from any URLs")]
            /\ pipeline' = [pipeline EXCEPT ![t].at = "done"]
       ELSE /\ pipeline' = [pipeline EXCEPT ![t].at = "retrieve"]
            /\ UNCHANGED processing_tasks
    /\ UNCHANGED <<response, temp_data, data, result_json, torn, serverFixed>>

\* main.py 484-486 with run_retrieve_process (221-247): retrieve.py runs on
\* the buffer.  What a run that does not return 0 leaves in data.json and in
\* the buffer is written over before it is read (main.py 434, retrieve.py 798).
RunRetrieve(t) ==
    /\ t \in DOMAIN pipeline
    /\ pipeline[t].at = "retrieve"
    /\ LoopFree(t)
    /\ \E outcome \in subprocess_run(RetrieveTimeout) :
       \E run \in {retrieve_run[temp_data]} :
          IF outcome = "returned" /\ run.raised = "none"
          THEN /\ data' = run.combined
               /\ temp_data' = clear_source_files(temp_data)
               /\ pipeline' = [pipeline EXCEPT ![t].at = "results"]
               /\ UNCHANGED processing_tasks
          ELSE IF outcome \in {"returned", "failed", "timeout"}
          THEN /\ processing_tasks' = [processing_tasks EXCEPT ![t] = failed(@, "Failed to run retrieve.py data processing")]
               /\ pipeline' = [pipeline EXCEPT ![t].at = "done"]
               /\ UNCHANGED <<data, temp_data>>
          ELSE /\ pipeline' = [pipeline EXCEPT ![t].at = "hung"]
               /\ UNCHANGED <<processing_tasks, data, temp_data>>
    /\ UNCHANGED <<response, result_json, torn, serverFixed>>

\* main.py 491-493 with run_results_process (249-275): results.py runs on
\* data.json.  A run killed at the timeout has left result.json as it was,
\* or has truncated it and not finished writing it.
RunResults(t) ==
    /\ t \in DOMAIN pipeline
    /\ pipeline[t].at = "results"
    /\ LoopFree(t)
    /\ \E outcome \in subprocess_run(ResultsTimeout) :
       \E raises \in {results_run[data].raises} :
       \E written \in {results_run[data].written} :
          IF outcome = "returned" /\ ~raises
          THEN /\ result_json' = IF written = Unwritten THEN result_json ELSE written
               /\ torn' = IF written = Unwritten THEN torn ELSE torn \ {"result.json"}
               /\ pipeline' = [pipeline EXCEPT ![t].at = "load"]
               /\ UNCHANGED processing_tasks
          ELSE IF outcome \in {"returned", "failed", "timeout"}
          THEN /\ processing_tasks' = [processing_tasks EXCEPT ![t] = failed(@, "Failed to run results.py content selection")]
               /\ pipeline' = [pipeline EXCEPT ![t].at = "done"]
               /\ \E killed_writing \in {outcome = "timeout" /\ written # Unwritten, FALSE} :
                     IF killed_writing
                     THEN result_json' = <<>> /\ torn' = torn \cup {"result.json"}
                     ELSE UNCHANGED <<result_json, torn>>
          ELSE /\ pipeline' = [pipeline EXCEPT ![t].at = "hung"]
               /\ UNCHANGED <<processing_tasks, result_json, torn>>
    /\ UNCHANGED <<response, temp_data, data, serverFixed>>

\* main.py 498-514: result.json is loaded and the task is completed
LoadResult(t) ==
    /\ t \in DOMAIN pipeline
    /\ pipeline[t].at = "load"
    /\ LoopFree(t)
    /\ LET result_data == load_result_json(result_json, "result.json" \in torn) IN
       processing_tasks' =
          [processing_tasks EXCEPT ![t] =
              IF result_data = None
              THEN failed(@, "Failed to load final results from result.json")
              ELSE completed(@, result_data[2])]
    /\ pipeline' = [pipeline EXCEPT ![t].at = "done"]
    /\ UNCHANGED <<response, temp_data, data, result_json, torn, serverFixed>>

Tasks == 1..MaxTasks

Pipeline(t) ==
    \/ StartPipeline(t)
    \/ ScrapeUrl(t)
    \/ CheckBuffer(t)
    \/ RunRetrieve(t)
    \/ RunResults(t)
    \/ LoadResult(t)

NextServer ==
    \/ \E urls \in Requests : ProcessContent(urls)
    \/ \E t \in Tasks : GetResults(t)
    \/ \E t \in Tasks : StartPipeline(t)
    \/ \E t \in Tasks : ScrapeUrl(t)
    \/ \E t \in Tasks : CheckBuffer(t)
    \/ \E t \in Tasks : RunRetrieve(t)
    \/ \E t \in Tasks : RunResults(t)
    \/ \E t \in Tasks : LoadResult(t)

SpecServer == InitServer /\ [][NextServer]_vars

\* the server without its readers: requests are accepted and pipelines run
NextPipelines ==
    \/ \E urls \in Requests : ProcessContent(urls)
    \/ \E t \in Tasks : Pipeline(t)

\* the event loop runs a coroutine that is ready: while a pipeline is queued
\* or running, a pipeline takes its next step
SpecServerFair ==
    InitServer /\ [][NextPipelines]_vars /\ WF_vars(\E t \in Tasks : Pipeline(t))

(***************************************************************************)
(* Claims about the orchestration                                          *)
(***************************************************************************)
Submitted == DOMAIN processing_tasks
Status(t) == processing_tasks[t].status
Terminal == {"completed", "error"}

\* the URLs a task was submitted with
OwnUrls(t) ==
    {PyStr(processing_tasks[t].urls_processed[i].url) :
        i \in DOMAIN processing_tasks[t].urls_processed}

\* C26: the result_data of a completed task holds only items scraped for the
\* task's own URLs, never the content an earlier task left in result.json.
CompletedWithOwnRecords ==
    \A t \in Submitted :
        Status(t) = "completed" =>
            \A i \in DOMAIN processing_tasks[t].result_data[2] :
                get_url_group(processing_tasks[t].result_data[2][i]) \in OwnUrls(t)

\* the fields of a task dictionary, or of a response, agree with its status
FieldsAgree(task) ==
    /\ task.status \in {"processing", "completed", "error"}
    /\ ~IsNone(task.completed_at) <=> task.status \in Terminal
    /\ ~IsNone(task.result_data) => task.status = "completed"
    /\ ~IsNone(task.error) => task.status = "error"

\* the rank of a position of process_pipeline
Stage(at) ==
    CASE at = "queued" -> 0 [] at = "scrape" -> 1 [] at = "retrieve" -> 2
      [] at = "results" -> 3 [] at = "load" -> 4 [] OTHER -> 5

\* one step of the server, seen from task t
LifecycleStep(t) ==
    /\ FieldsAgree(processing_tasks'[t])
    /\ t \notin Submitted => processing_tasks'[t].status = "processing"
    /\ t \in Submitted =>
          /\ Status(t) \in Terminal => processing_tasks'[t] = processing_tasks[t]
          /\ processing_tasks'[t].status = "completed" /\ Status(t) = "processing" =>
                pipeline[t].at = "load" /\ pipeline[t].successful_scrapers # <<>>
          /\ pipeline'[t].at # pipeline[t].at =>
                \/ pipeline'[t].at = "done" /\ processing_tasks'[t].status \in Terminal
                \/ Stage(pipeline'[t].at) = Stage(pipeline[t].at) + 1 /\ Stage(pipeline'[t].at) < 5
          /\ pipeline'[t].at = "done" <=> processing_tasks'[t].status \in Terminal

Ends(t) ==
    /\ t \in Submitted
    /\ \/ Status(t) = "error"
       \/ Status(t) = "completed" /\ pipeline[t].successful_scrapers # <<>>

OnSharedFiles == {t \in DOMAIN pipeline : pipeline[t].at \in {"scrape", "retrieve", "results", "load"}}

\* C29: between a pipeline's reset of temp_data.json and its load of
\* result.json no other pipeline of the server process is at a scraper, at
\* the Router or at the selection.
PipelinesDoNotInterleave == Cardinality(OnSharedFiles) <= 1

PipelinesDoNotInterleaveWitness ==
    \E t \in DOMAIN pipeline : \E u \in DOMAIN pipeline :
        /\ pipeline[t].at = "retrieve" /\ temp_data # <<>>
        /\ pipeline[u].at = "queued"

====
